---------------------------- MODULE Spec2Model ----------------------------
(***************************************************************************)
(* Verification model of session-signals: the auto-fix spawner and its     *)
(* branch cleanup (src/actions/autofix.ts), the issue filer                *)
(* (src/actions/beads.ts), the signal-tagger entry point                   *)
(* (src/signal-tagger.ts), the three harness adapters (src/adapters), the  *)
(* Ollama client (src/lib/ollama-client.ts), the pattern analyzer          *)
(* (src/lib/pattern-analyzer.ts) and the friction detectors                *)
(* (src/lib/heuristics.ts).                                                *)
(***************************************************************************)
EXTENDS Integers, Sequences, FiniteSets, TLC

VARIABLES
    \* ---- auto-fix spawner: inputs of executeAutofixAction ----
    patterns,       \* Pattern[] handed to executeAutofixAction
    config,         \* AutofixActionConfig
    maxPerRunOpt,   \* options.maxPerRun: {} when absent, {n} when given
    \* ---- the git repository the GitOps calls act on ----
    branches,       \* existing branch names
    current,        \* the checked-out branch
    ahead,          \* branches holding commits that the original branch lacks
    \* ---- locals of executeAutofixAction ----
    pc,             \* "start" | "loop" | "done" | "threw"
    idx,            \* position of the for-of loop in patterns
    fixCount,
    originalBranch,
    results,        \* AutofixResult[]
    log,            \* every GitOps / AgentRunner call made, with its outcome
    clean,          \* the working tree has no uncommitted change
    agentAvailable, \* the coding-agent binary answers --version
    \* ---- signal-tagger entry point ----
    tpc,            \* position of main() / the process
    hook,           \* what arrives on stdin
    env,            \* configuration file, harness settings, session log
    harness,        \* the harness detectHarness chose ("null" when none)
    terr,           \* the error main() rejected with ("none" when it has not)
    exitCode,       \* process exit code (-1 while running)
    written,        \* Signal Records appended by this process
    \* ---- cleanupExpiredBranches ----
    cpc,            \* "start" | "loop" | "done" | "threw"
    cidx,           \* position of the for-of loop in the listed branches
    listed,         \* what git.listBranches(config.branch_prefix) returned
    currentBranch,  \* what git.currentBranch() returned
    lastCommit,     \* per branch, what git log -1 --format=%ct answers
    cleanupResults, \* CleanupResult[]
    \* ---- executeBeadsAction ----
    bpatterns,      \* Pattern[] handed to executeBeadsAction
    bconfig,        \* BeadsActionConfig
    tracker,        \* the issues of the beads tracker, in listing order
    bdAvailable,    \* the bd binary answers --version
    bpc,            \* "start" | "loop" | "done"
    bidx,           \* position of the for-of loop in the patterns
    bresults,       \* BeadsActionResult[]
    blog,           \* every bd search / create / comments add made
    \* ---- harness adapters: getSessionEvents ----
    sessionId,      \* the session asked for
    sessionFile,    \* the session's own file: "missing" | "malformed" | "ok"
    apc,            \* position of the adapter call
    events,         \* NormalizedEvent[] returned
    rawEvents,      \* flat-hook: the records of the *_all-events.jsonl files
    allEvents,      \* flat-hook: events collected before the sort
    history,        \* turn-based: the history array of the session file
    baseTimestamp,  \* turn-based: timestamp hint of the file name ({} if none)
    entries,        \* tree-based: the entries of the session file
    linear,         \* tree-based: result of linearizeEntries
    pcur,           \* tree-based: position of `current` in entries (0: undefined)
    \* ---- lib/ollama-client.ts: one call on the client ----
    ocall,          \* "generate" | "generateJSON"
    maxRetriesOpt,  \* options.maxRetries: {} when absent, {n} when given
    opc,            \* position inside generate / generateJSON
    gen,            \* generate calls started by this call
    attempt,        \* loop variable of generate
    elapsed,        \* ticks since the running attempt's fetch began
    lastError,      \* lastError of generate ("undefined" before any failure)
    sleeps,         \* every sleep(ms) made, in units of BACKOFF_BASE_MS
    fetches,        \* every HTTP attempt made, with how it ended
    rawText,        \* generateJSON: `raw`, the text of the first generation
    oresult,        \* what the call returned or threw ("pending" before)
    \* ---- lib/pattern-analyzer.ts: analyzeScope ----
    records,        \* SignalRecord[] of the scope (signals.length of each)
    minSessionSignals, \* config.analyzer.min_session_signals
    anpc,           \* position inside analyzeScope
    available,      \* what client.isAvailable() answered ("unasked" before)
    generations,    \* client.generateJSON calls issued
    warnings,       \* warn() messages
    analysisResult, \* AnalysisResult returned ("pending" before, "threw")
    \* ---- lib/pattern-analyzer.ts: classifyTrend ----
    counts,         \* per-day counts of one signal type over the window
    trpc,
    trend,          \* PatternTrend returned
    \* ---- lib/heuristics.ts: one detector over one event list ----
    hevents,        \* NormalizedEvent[] handed to the detector
    tconfig,        \* TaggerConfig
    hpc,
    signal,         \* FrictionSignal | null returned
    \* ---- lib/tagger.ts: buildSignalRecord over one session, run twice ----
    tsession,       \* the session log: its events and how they are timestamped
    tagRuns,        \* per run of the tagger: the events it saw, the record built
    \* ---- lib/tagger.ts: writeSignalRecord by concurrent taggers ----
    dirExists,      \* the signals directory exists
    fileContent,    \* the day file, character by character ("absent" before)
    writers,        \* per tagger: its line, its position, characters written
    \* ---- lib/config.ts: loadConfig ----
    rawFile,        \* the configuration file on disk
    loadResult      \* what loadConfig returned or threw ("pending" before)

autofixVars == <<patterns, config, maxPerRunOpt, branches, current, ahead,
                 pc, idx, fixCount, originalBranch, results, log,
                 clean, agentAvailable>>
taggerVars == <<tpc, hook, env, harness, terr, exitCode, written>>
cleanupVars == <<cpc, cidx, listed, currentBranch, lastCommit, cleanupResults>>
beadsVars == <<bpatterns, bconfig, tracker, bdAvailable, bpc, bidx, bresults, blog>>
adapterInputs == <<sessionId, sessionFile>>
claudeVars == <<rawEvents, allEvents>>
geminiVars == <<history, baseTimestamp>>
piVars == <<entries, linear, pcur>>
adapterVars == <<adapterInputs, apc, events, claudeVars, geminiVars, piVars>>
ollamaVars == <<ocall, maxRetriesOpt, opc, gen, attempt, elapsed, lastError,
                sleeps, fetches, rawText, oresult>>
analyzeVars == <<records, minSessionSignals, anpc, available, generations, warnings,
                 analysisResult>>
trendVars == <<counts, trpc, trend>>
heuristicVars == <<hevents, tconfig, hpc, signal>>
analyzerVars == <<ollamaVars, analyzeVars, trendVars, heuristicVars>>
tagVars == <<tsession, tagRuns>>
appendVars == <<dirExists, fileContent, writers>>
loadVars == <<rawFile, loadResult>>
libVars == <<tagVars, appendVars, loadVars>>
otherVars == <<cleanupVars, beadsVars, adapterVars, analyzerVars, libVars>>
nonAdapterVars == <<autofixVars, taggerVars, cleanupVars, beadsVars, analyzerVars,
                    libVars>>
pipelineVars == <<autofixVars, taggerVars, cleanupVars, beadsVars, adapterVars>>
vars == <<autofixVars, taggerVars, otherVars>>

-----------------------------------------------------------------------------
(* Bounds of the model *)

MaxPatterns == 2
MaxCapOption == 1
MaxPreexisting == 1

-----------------------------------------------------------------------------
(* Types of src/lib/types.ts used by the auto-fix spawner *)

Severities == {"low", "medium", "high"}

SEVERITY_RANK == [low |-> 1, medium |-> 2, high |-> 3]

DefaultMaxPerRun == 3

\* Pattern ids are distinct per position; a branch name is prefix ++ id.
IdPool == <<"p1", "p2", "p3", "p4">>

Frequencies == {2, 3}

PatternAttrs == [auto_fixable : BOOLEAN, severity : Severities, frequency : Frequencies]

MakePattern(i, a) ==
    [id |-> IdPool[i], auto_fixable |-> a.auto_fixable,
     severity |-> a.severity, frequency |-> a.frequency]

PatternLists ==
    UNION { { [i \in 1..n |-> MakePattern(i, f[i])] : f \in [1..n -> PatternAttrs] }
            : n \in 0..MaxPatterns }

BRANCH_PREFIX == "signals/fix-"

MainBranch == <<"", "main">>

NoBranch == <<"", "">>

AutofixConfigs ==
    [enabled : BOOLEAN, min_severity : {"high"}, min_frequency : {3},
     branch_prefix : {BRANCH_PREFIX}]

-----------------------------------------------------------------------------
(* Pure helpers of autofix.ts *)

meetsAutoFixThreshold_Always(pattern, cfg) == TRUE

meetsAutoFixThreshold_NoAutoFixable(pattern, cfg) ==
    /\ SEVERITY_RANK[pattern.severity] >= SEVERITY_RANK[cfg.min_severity]
    /\ pattern.frequency >= cfg.min_frequency

meetsAutoFixThreshold(pattern, cfg) ==
    /\ pattern.auto_fixable = TRUE
    /\ SEVERITY_RANK[pattern.severity] >= SEVERITY_RANK[cfg.min_severity]
    /\ pattern.frequency >= cfg.min_frequency

buildBranchName(pattern, prefix) == <<prefix, pattern.id>>

\* line 339: git.branchExists(branchName)
branchExists_Never(branchName) == FALSE

branchExists(branchName) == branchName \in branches

maxPerRun == IF maxPerRunOpt = {} THEN DefaultMaxPerRun ELSE CHOOSE n \in maxPerRunOpt : TRUE

-----------------------------------------------------------------------------
(* The GitOps / AgentRunner calls and their effect on the repository *)

Call(op, branch, ok, val, i) ==
    [op |-> op, branch |-> branch, ok |-> ok, val |-> val, pat |-> i]

Repo == [branches |-> branches, current |-> current, ahead |-> ahead]

\* git checkout -b / claude -p / git checkout / git branch -D on repository g.
\* A call that fails (ok = FALSE) leaves the repository as it was.
ApplyCall(g, c) ==
    CASE c.op = "createAndCheckoutBranch" /\ c.ok ->
            [branches |-> g.branches \cup {c.branch},
             current  |-> c.branch,
             ahead    |-> IF g.current \in g.ahead
                          THEN g.ahead \cup {c.branch} ELSE g.ahead]
      [] c.op = "agent.run" /\ c.val ->
            [g EXCEPT !.ahead = @ \cup {g.current}]
      [] c.op = "checkoutBranch" /\ c.ok ->
            [g EXCEPT !.current = c.branch]
      [] c.op = "deleteBranch" /\ c.ok ->
            [g EXCEPT !.branches = @ \ {c.branch}, !.ahead = @ \ {c.branch}]
      [] OTHER -> g

RECURSIVE ApplyCalls(_, _)
ApplyCalls(g, calls) ==
    IF calls = <<>> THEN g
    ELSE ApplyCalls(ApplyCall(g, Head(calls)), Tail(calls))

\* What the environment answers during one loop iteration.
Outcomes ==
    [createOk : BOOLEAN, agentOk : BOOLEAN, agentCommits : BOOLEAN,
     commitsCheckOk : BOOLEAN, checkoutOk : BOOLEAN, deleteOk : BOOLEAN,
     recoverOk : BOOLEAN]

-----------------------------------------------------------------------------
(* executeAutofixAction: results *)

Result(pattern, action, branch, reason) ==
    [pattern_id |-> pattern.id, action |-> action, branch |-> branch, reason |-> reason]

DirtyResults_Silent(ps) == <<>>

DirtyResults(ps) ==
    [i \in 1..Len(ps) |-> Result(ps[i], "skipped", NoBranch, "Working tree is dirty")]

UnavailableResults(ps) ==
    [i \in 1..Len(ps) |-> Result(ps[i], "skipped", NoBranch, "claude CLI not available")]

\* git.checkoutBranch(originalBranch) at lines 373, 406 and 417
CheckoutCalls_Skipped(branch, ok, i) == <<>>

CheckoutCalls(branch, ok, i) == << Call("checkoutBranch", branch, ok, FALSE, i) >>

\* line 378: if (!hasCommits && checkedOut) deleteBranch
ShouldDeleteBranch_IgnoreCommits(hasCommits, checkedOut) == checkedOut

ShouldDeleteBranch_IgnoreCheckout(hasCommits, checkedOut) == ~hasCommits

ShouldDeleteBranch_Never(hasCommits, checkedOut) == FALSE

ShouldDeleteBranch(hasCommits, checkedOut) == ~hasCommits /\ checkedOut

\* lines 381-401: the one result pushed after an agent failure
FailureResult_AlwaysDeleted(pattern, branchName, hasCommits, checkedOut) ==
    Result(pattern, "skipped", NoBranch, "Agent failed; branch deleted (no commits)")

FailureResult(pattern, branchName, hasCommits, checkedOut) ==
    IF hasCommits
    THEN Result(pattern, "skipped", branchName,
                "Agent failed; branch retained (has partial commits)")
    ELSE IF checkedOut
    THEN Result(pattern, "skipped", NoBranch,
                "Agent failed; branch deleted (no commits)")
    ELSE Result(pattern, "skipped", branchName,
                "Agent failed; branch retained (checkout failed)")

\* lines 366-369: hasNewCommits(...).catch(() => true)
HasCommits_TrustsFailedCheck(g, branchName, o) ==
    o.commitsCheckOk /\ branchName \in g.ahead

HasCommits(g, branchName, o) ==
    IF o.commitsCheckOk THEN branchName \in g.ahead ELSE TRUE

\* lines 363-402: the calls made in the catch block of agent.run
AgentFailureCalls(g, branchName, orig, o, i) ==
    LET hasCommits == HasCommits(g, branchName, o)
        back       == CheckoutCalls(orig, o.checkoutOk, i)
        checkedOut == back # <<>> /\ o.checkoutOk
    IN  << Call("hasNewCommits", branchName, o.commitsCheckOk, branchName \in g.ahead, i) >>
        \o back
        \o (IF ShouldDeleteBranch(hasCommits, checkedOut)
            THEN << Call("deleteBranch", branchName, o.deleteOk, FALSE, i) >>
            ELSE <<>>)

\* lines 350-421: every call of one attempt, in order
AttemptCalls(g, pattern, orig, o, i) ==
    LET branchName == buildBranchName(pattern, config.branch_prefix)
        create     == Call("createAndCheckoutBranch", branchName, o.createOk, FALSE, i)
        run        == Call("agent.run", branchName, o.agentOk, o.agentCommits, i)
        g2         == ApplyCalls(g, <<create, run>>)
    IN  IF ~o.createOk
        THEN <<create>> \o CheckoutCalls(orig, o.recoverOk, i)
        ELSE IF o.agentOk
        THEN <<create, run>> \o CheckoutCalls(orig, o.checkoutOk, i)
             \o (IF o.checkoutOk THEN <<>> ELSE CheckoutCalls(orig, o.recoverOk, i))
        ELSE <<create, run>> \o AgentFailureCalls(g2, branchName, orig, o, i)

\* lines 350-421: the results pushed by one attempt
AttemptResults(g, pattern, orig, o) ==
    LET branchName == buildBranchName(pattern, config.branch_prefix)
        gitError   == Result(pattern, "skipped", NoBranch, "Git error")
        g2         == ApplyCalls(g, << Call("createAndCheckoutBranch", branchName, TRUE, FALSE, 0),
                                       Call("agent.run", branchName, o.agentOk, o.agentCommits, 0) >>)
    IN  IF ~o.createOk
        THEN <<gitError>>
        ELSE IF o.agentOk
        THEN << Result(pattern, "fixed", branchName, "none") >>
             \o (IF o.checkoutOk THEN <<>> ELSE <<gitError>>)
        ELSE << FailureResult(pattern, branchName,
                              HasCommits(g2, branchName, o), o.checkoutOk) >>

\* line 357: fixCount++ runs only when agent.run resolved
FixCountAfter(n, o) == IF o.createOk /\ o.agentOk THEN n + 1 ELSE n

-----------------------------------------------------------------------------
(* executeAutofixAction: the actions *)

AutofixInit ==
    /\ patterns \in PatternLists
    /\ config \in AutofixConfigs
    /\ maxPerRunOpt \in {{}} \cup { {n} : n \in 1..MaxCapOption }
    /\ \E pre \in SUBSET { <<BRANCH_PREFIX, IdPool[k]>> : k \in 1..MaxPreexisting } :
           branches = {MainBranch} \cup pre
    /\ current = MainBranch
    /\ ahead = {}
    /\ clean \in BOOLEAN
    /\ agentAvailable \in BOOLEAN
    /\ pc = "start"
    /\ idx = 1
    /\ fixCount = 0
    /\ originalBranch = NoBranch
    /\ results = <<>>
    /\ log = <<>>

inputs == <<patterns, config, maxPerRunOpt, clean, agentAvailable>>
repoVars == <<branches, current, ahead>>
loopVars == <<idx, fixCount, originalBranch>>

\* line 283
AutofixDisabled ==
    /\ pc = "start" /\ ~config.enabled
    /\ pc' = "done"
    /\ UNCHANGED <<inputs, repoVars, loopVars, results, log, taggerVars, otherVars>>

\* lines 293, 314: git status / git rev-parse reject, the promise rejects
AutofixProbeThrows ==
    /\ pc = "start" /\ config.enabled
    /\ pc' = "threw"
    /\ UNCHANGED <<inputs, repoVars, loopVars, results, log, taggerVars, otherVars>>

\* lines 292-301
AutofixDirty ==
    /\ pc = "start" /\ config.enabled /\ ~clean
    /\ results' = DirtyResults(patterns)
    /\ pc' = "done"
    /\ UNCHANGED <<inputs, repoVars, loopVars, log, taggerVars, otherVars>>

\* lines 303-312
AutofixUnavailable ==
    /\ pc = "start" /\ config.enabled /\ clean /\ ~agentAvailable
    /\ results' = UnavailableResults(patterns)
    /\ pc' = "done"
    /\ UNCHANGED <<inputs, repoVars, loopVars, log, taggerVars, otherVars>>

\* lines 314-315
AutofixBegin ==
    /\ pc = "start" /\ config.enabled /\ clean /\ agentAvailable
    /\ originalBranch' = current
    /\ fixCount' = 0
    /\ idx' = 1
    /\ pc' = "loop"
    /\ UNCHANGED <<inputs, repoVars, results, log, taggerVars, otherVars>>

InLoop == pc = "loop" /\ idx <= Len(patterns)

\* lines 318-325
SkipBelowThreshold ==
    /\ InLoop
    /\ ~meetsAutoFixThreshold(patterns[idx], config)
    /\ results' = Append(results, Result(patterns[idx], "skipped", NoBranch, "Below threshold"))
    /\ idx' = idx + 1
    /\ UNCHANGED <<inputs, repoVars, pc, fixCount, originalBranch, log, taggerVars, otherVars>>

\* lines 327-334
SkipRunLimit ==
    /\ InLoop
    /\ meetsAutoFixThreshold(patterns[idx], config)
    /\ fixCount >= maxPerRun
    /\ results' = Append(results, Result(patterns[idx], "skipped", NoBranch, "Run limit reached"))
    /\ idx' = idx + 1
    /\ UNCHANGED <<inputs, repoVars, pc, fixCount, originalBranch, log, taggerVars, otherVars>>

\* lines 336-348
SkipBranchExists ==
    /\ InLoop
    /\ meetsAutoFixThreshold(patterns[idx], config)
    /\ fixCount < maxPerRun
    /\ branchExists(buildBranchName(patterns[idx], config.branch_prefix))
    /\ results' = Append(results,
                         Result(patterns[idx], "skipped",
                                buildBranchName(patterns[idx], config.branch_prefix),
                                "Branch already exists (previously attempted)"))
    /\ idx' = idx + 1
    /\ UNCHANGED <<inputs, repoVars, pc, fixCount, originalBranch, log, taggerVars, otherVars>>

\* lines 350-421
AttemptFix ==
    /\ InLoop
    /\ meetsAutoFixThreshold(patterns[idx], config)
    /\ fixCount < maxPerRun
    /\ ~branchExists(buildBranchName(patterns[idx], config.branch_prefix))
    /\ \E o \in Outcomes :
         LET calls == AttemptCalls(Repo, patterns[idx], originalBranch, o, idx)
             g     == ApplyCalls(Repo, calls)
         IN  /\ branches' = g.branches
             /\ current' = g.current
             /\ ahead' = g.ahead
             /\ log' = log \o calls
             /\ results' = results \o AttemptResults(Repo, patterns[idx], originalBranch, o)
             /\ fixCount' = FixCountAfter(fixCount, o)
    /\ idx' = idx + 1
    /\ UNCHANGED <<inputs, pc, originalBranch, taggerVars, otherVars>>

\* line 424
AutofixReturn ==
    /\ pc = "loop" /\ idx > Len(patterns)
    /\ pc' = "done"
    /\ UNCHANGED <<inputs, repoVars, loopVars, results, log, taggerVars, otherVars>>

AutofixNext ==
    \/ AutofixDisabled
    \/ AutofixProbeThrows
    \/ AutofixDirty
    \/ AutofixUnavailable
    \/ AutofixBegin
    \/ SkipBelowThreshold
    \/ SkipRunLimit
    \/ SkipBranchExists
    \/ AttemptFix
    \/ AutofixReturn

AutofixIdle ==
    /\ patterns = <<>>
    /\ config = [enabled |-> FALSE, min_severity |-> "high", min_frequency |-> 3,
                 branch_prefix |-> BRANCH_PREFIX]
    /\ maxPerRunOpt = {}
    /\ branches = {MainBranch}
    /\ current = MainBranch
    /\ ahead = {}
    /\ clean = TRUE
    /\ agentAvailable = TRUE
    /\ pc = "idle"
    /\ idx = 1
    /\ fixCount = 0
    /\ originalBranch = NoBranch
    /\ results = <<>>
    /\ log = <<>>

-----------------------------------------------------------------------------
(* signal-tagger.ts: the hook entry point *)

Harnesses == {"claude_code", "gemini_cli", "pi_coding_agent"}

\* Object.entries(config.harnesses) visits the keys in this order
HarnessOrder == <<"claude_code", "gemini_cli", "pi_coding_agent">>

\* What arrives on stdin: nothing, text that is not JSON, JSON without a string
\* session_id, or a HookInput whose transcript_path carries one harness marker
\* ("none": no transcript_path, or no marker in it).
HookInputs ==
    [kind : {"empty", "bad json", "no session_id"}, transcript : {"none"}]
    \cup [kind : {"hook"}, transcript : Harnesses \cup {"none"}]

\* The world main() reads: config.json, the harness environment variables,
\* whether the session log holds events for the session.
Environments ==
    [configStatus : {"ok", "unreadable", "bad json", "invalid"},
     enabled      : [Harnesses -> BOOLEAN],
     hint         : Harnesses \cup {"none"},
     hasEvents    : BOOLEAN]

isHookInput(h) == h.kind = "hook"

detectHarness(h, e) ==
    IF h.transcript # "none" THEN h.transcript
    ELSE IF e.hint # "none" THEN e.hint
    ELSE IF \E k \in 1..Len(HarnessOrder) : e.enabled[HarnessOrder[k]]
    THEN LET first == CHOOSE k \in 1..Len(HarnessOrder) :
                         /\ e.enabled[HarnessOrder[k]]
                         /\ \A j \in 1..(k - 1) : ~e.enabled[HarnessOrder[j]]
         IN  HarnessOrder[first]
    ELSE "null"

createAdapter(h, e) == IF e.enabled[h] THEN h ELSE "null"

\* main().catch(...): the rejection is swallowed, the process ends normally
ExitCodeAfter_NoCatch(settled) == IF settled = "rejected" THEN 1 ELSE 0

ExitCodeAfter(settled) == 0

TaggerInit ==
    /\ tpc = "stdin"
    /\ hook \in HookInputs
    /\ env \in Environments
    /\ harness = "null"
    /\ terr = "none"
    /\ exitCode = -1
    /\ written = 0

Reject(err) ==
    /\ tpc' = "rejected"
    /\ terr' = err

\* lines 14-19
TaggerReadStdin ==
    /\ tpc = "stdin"
    /\ \E streamError \in BOOLEAN :
         IF streamError THEN Reject("stdin read error")
         ELSE /\ tpc' = IF hook.kind = "empty" THEN "resolved" ELSE "parse"
              /\ terr' = terr
    /\ UNCHANGED <<hook, env, harness, exitCode, written, autofixVars, otherVars>>

\* lines 21-22
TaggerParse ==
    /\ tpc = "parse"
    /\ IF hook.kind = "bad json" THEN Reject("SyntaxError")
       ELSE /\ tpc' = IF isHookInput(hook) THEN "config" ELSE "resolved"
            /\ terr' = terr
    /\ UNCHANGED <<hook, env, harness, exitCode, written, autofixVars, otherVars>>

\* line 24
TaggerLoadConfig ==
    /\ tpc = "config"
    /\ IF env.configStatus # "ok" THEN Reject(env.configStatus)
       ELSE /\ tpc' = "detect"
            /\ terr' = terr
    /\ UNCHANGED <<hook, env, harness, exitCode, written, autofixVars, otherVars>>

\* lines 25-26
TaggerDetect ==
    /\ tpc = "detect"
    /\ harness' = detectHarness(hook, env)
    /\ tpc' = IF harness' = "null" THEN "resolved" ELSE "adapter"
    /\ UNCHANGED <<hook, env, terr, exitCode, written, autofixVars, otherVars>>

\* lines 28-29
TaggerCreateAdapter ==
    /\ tpc = "adapter"
    /\ tpc' = IF createAdapter(harness, env) = "null" THEN "resolved" ELSE "events"
    /\ UNCHANGED <<hook, env, harness, terr, exitCode, written, autofixVars, otherVars>>

\* lines 31-32
TaggerGetEvents ==
    /\ tpc = "events"
    /\ \E readError \in BOOLEAN :
         IF readError THEN Reject("adapter read error")
         ELSE /\ tpc' = IF env.hasEvents THEN "record" ELSE "resolved"
              /\ terr' = terr
    /\ UNCHANGED <<hook, env, harness, exitCode, written, autofixVars, otherVars>>

\* lines 34-39
TaggerBuildRecord ==
    /\ tpc = "record"
    /\ \E detectorThrows \in BOOLEAN :
         IF detectorThrows THEN Reject("detector exception")
         ELSE /\ tpc' = "write"
              /\ terr' = terr
    /\ UNCHANGED <<hook, env, harness, exitCode, written, autofixVars, otherVars>>

\* line 41
TaggerWrite ==
    /\ tpc = "write"
    /\ \E writeFails \in BOOLEAN :
         IF writeFails
         THEN Reject("write failed") /\ written' = written
         ELSE /\ tpc' = "resolved"
              /\ terr' = terr
              /\ written' = written + 1
    /\ UNCHANGED <<hook, env, harness, exitCode, autofixVars, otherVars>>

\* lines 44-49: the promise of main() settles and the process ends
TaggerExit ==
    /\ tpc \in {"resolved", "rejected"}
    /\ exitCode' = ExitCodeAfter(tpc)
    /\ tpc' = "exited"
    /\ UNCHANGED <<hook, env, harness, terr, written, autofixVars, otherVars>>

TaggerNext ==
    \/ TaggerReadStdin
    \/ TaggerParse
    \/ TaggerLoadConfig
    \/ TaggerDetect
    \/ TaggerCreateAdapter
    \/ TaggerGetEvents
    \/ TaggerBuildRecord
    \/ TaggerWrite
    \/ TaggerExit

TaggerIdle ==
    /\ tpc = "idle"
    /\ hook = [kind |-> "empty", transcript |-> "none"]
    /\ env = [configStatus |-> "ok", enabled |-> [h \in Harnesses |-> FALSE],
              hint |-> "none", hasEvents |-> FALSE]
    /\ harness = "null"
    /\ terr = "none"
    /\ exitCode = -1
    /\ written = 0

-----------------------------------------------------------------------------
(* actions/autofix.ts: cleanupExpiredBranches *)

MaxBranches == 2

SECONDS_PER_DAY == 86400

\* Number.POSITIVE_INFINITY: above every age and every branch_ttl_days
Infinity == 2147483647

\* the clock read by branchAge (seconds since the epoch), not on a day boundary
NowEpoch == 40 * SECONDS_PER_DAY + 5

\* actions.autofix.branch_ttl_days is a positive number
TtlChoices == {1, 2}

\* a branch outside config.branch_prefix
OtherBranch == <<"feature/", "x">>

FixBranchPool == [k \in 1..MaxBranches |-> <<BRANCH_PREFIX, IdPool[k]>>]

\* What `git log -1 --format=%ct <branch>` answers: the command fails, or it
\* prints text from which parseInt reads an epoch ({n}) or nothing ({}).
GitLogAnswers ==
    {[ok |-> FALSE, epoch |-> {}], [ok |-> TRUE, epoch |-> {}]}
    \cup { [ok |-> TRUE, epoch |-> {NowEpoch - (d * SECONDS_PER_DAY + s)}] :
             d \in 0..3, s \in {0, SECONDS_PER_DAY - 1} }

isNaN(commitEpoch) == commitEpoch = {}

branchAge_NaNAsZero(answer, nowEpoch) ==
    IF isNaN(answer.epoch) THEN 0
    ELSE (nowEpoch - (CHOOSE n \in answer.epoch : TRUE)) \div SECONDS_PER_DAY

\* GitOps.branchAge once git log has answered
branchAge(answer, nowEpoch) ==
    IF isNaN(answer.epoch) THEN Infinity
    ELSE (nowEpoch - (CHOOSE n \in answer.epoch : TRUE)) \div SECONDS_PER_DAY

isExpired_Always(ageDays, cfg) == TRUE

isExpired_Strict(ageDays, cfg) == ageDays > cfg.branch_ttl_days

\* line 238
isExpired(ageDays, cfg) == ageDays >= cfg.branch_ttl_days

isCheckedOut_Never(cur, branch) == FALSE

\* line 240
isCheckedOut(cur, branch) == cur = branch

\* GitOps.listBranches: refs/heads/<prefix>* in refname order; [] on failure
listBranches(prefix, ok) ==
    IF ok THEN SelectSeq(FixBranchPool, LAMBDA b : b \in branches /\ b[1] = prefix)
    ELSE <<>>

CleanupResult(branch, deleted, age_days, reason) ==
    [branch |-> branch, deleted |-> deleted, age_days |-> age_days, reason |-> reason]

CleanupConfigs ==
    [enabled : {TRUE}, min_severity : {"high"}, min_frequency : {3},
     branch_prefix : {BRANCH_PREFIX}, branch_ttl_days : TtlChoices]

CleanupInit ==
    /\ patterns = <<>>
    /\ config \in CleanupConfigs
    /\ maxPerRunOpt = {}
    /\ \E fix \in SUBSET { FixBranchPool[k] : k \in 1..MaxBranches },
          other \in SUBSET {OtherBranch} :
           branches = {MainBranch} \cup fix \cup other
    /\ current \in branches
    /\ ahead = {}
    /\ clean = TRUE
    /\ agentAvailable = TRUE
    /\ pc = "idle"
    /\ idx = 1
    /\ fixCount = 0
    /\ originalBranch = NoBranch
    /\ results = <<>>
    /\ log = <<>>
    /\ cpc = "start"
    /\ cidx = 1
    /\ listed = <<>>
    /\ currentBranch = NoBranch
    /\ lastCommit \in [branches \ {MainBranch, OtherBranch} -> GitLogAnswers]
    /\ cleanupResults = <<>>

cleanupFrame ==
    <<patterns, config, maxPerRunOpt, current, ahead, pc, idx, fixCount,
      originalBranch, results, clean, agentAvailable, lastCommit, taggerVars,
      beadsVars, adapterVars, analyzerVars, libVars>>

\* lines 226-228, git.currentBranch() answers
CleanupBegin ==
    /\ cpc = "start"
    /\ \E listOk \in BOOLEAN :
           listed' = listBranches(config.branch_prefix, listOk)
    /\ currentBranch' = current
    /\ cpc' = "loop"
    /\ UNCHANGED <<cidx, cleanupResults, branches, log, cleanupFrame>>

\* line 228, git.currentBranch() throws: cleanupExpiredBranches rejects
CleanupCurrentBranchThrows ==
    /\ cpc = "start"
    /\ cpc' = "threw"
    /\ UNCHANGED <<cidx, listed, currentBranch, cleanupResults, branches, log,
                   cleanupFrame>>

InCleanupLoop == cpc = "loop" /\ cidx <= Len(listed)

\* lines 232, 254-262: git log fails, branchAge throws into the catch
CleanupAgeThrows ==
    /\ InCleanupLoop
    /\ ~lastCommit[listed[cidx]].ok
    /\ cleanupResults' = Append(cleanupResults,
           CleanupResult(listed[cidx], FALSE, 0, "Error"))
    /\ cidx' = cidx + 1
    /\ UNCHANGED <<cpc, listed, currentBranch, branches, log, cleanupFrame>>

\* lines 251-253
CleanupKeep ==
    /\ InCleanupLoop
    /\ lastCommit[listed[cidx]].ok
    /\ LET ageDays == branchAge(lastCommit[listed[cidx]], NowEpoch)
       IN  /\ ~isExpired(ageDays, config)
           /\ cleanupResults' = Append(cleanupResults,
                  CleanupResult(listed[cidx], FALSE, ageDays, "none"))
    /\ cidx' = cidx + 1
    /\ UNCHANGED <<cpc, listed, currentBranch, branches, log, cleanupFrame>>

\* lines 238-247
CleanupSkipCheckedOut ==
    /\ InCleanupLoop
    /\ lastCommit[listed[cidx]].ok
    /\ LET ageDays == branchAge(lastCommit[listed[cidx]], NowEpoch)
       IN  /\ isExpired(ageDays, config)
           /\ isCheckedOut(currentBranch, listed[cidx])
           /\ cleanupResults' = Append(cleanupResults,
                  CleanupResult(listed[cidx], FALSE, ageDays, "Currently checked out"))
    /\ cidx' = cidx + 1
    /\ UNCHANGED <<cpc, listed, currentBranch, branches, log, cleanupFrame>>

\* lines 249-251, and 254-262 when git branch -D fails.  git refuses to
\* delete the branch that is checked out.
CleanupDelete ==
    /\ InCleanupLoop
    /\ lastCommit[listed[cidx]].ok
    /\ LET branch == listed[cidx]
           ageDays == branchAge(lastCommit[branch], NowEpoch)
       IN  /\ isExpired(ageDays, config)
           /\ ~isCheckedOut(currentBranch, branch)
           /\ \E deleteOk \in BOOLEAN :
                  LET ok == deleteOk /\ branch # current
                      call == Call("deleteBranch", branch, ok, ok, cidx)
                  IN  /\ log' = Append(log, call)
                      /\ branches' = ApplyCall(Repo, call).branches
                      /\ cleanupResults' = Append(cleanupResults,
                             IF ok
                             THEN CleanupResult(branch, TRUE, ageDays, "none")
                             ELSE CleanupResult(branch, FALSE, 0, "Error"))
    /\ cidx' = cidx + 1
    /\ UNCHANGED <<cpc, listed, currentBranch, cleanupFrame>>

\* line 265
CleanupReturn ==
    /\ cpc = "loop"
    /\ cidx > Len(listed)
    /\ cpc' = "done"
    /\ UNCHANGED <<cidx, listed, currentBranch, cleanupResults, branches, log,
                   cleanupFrame>>

CleanupNext ==
    \/ CleanupBegin
    \/ CleanupCurrentBranchThrows
    \/ CleanupAgeThrows
    \/ CleanupKeep
    \/ CleanupSkipCheckedOut
    \/ CleanupDelete
    \/ CleanupReturn

CleanupIdle ==
    /\ cpc = "idle"
    /\ cidx = 1
    /\ listed = <<>>
    /\ currentBranch = NoBranch
    /\ lastCommit = <<>>
    /\ cleanupResults = <<>>

-----------------------------------------------------------------------------
(* actions/beads.ts: issue filing *)

MaxIssues == 1
MaxBeadsPatterns == 2

\* Text is a sequence of atoms: words, and the separators between them.
SP == " "
SP2 == "  "
TAB == "\t"

IsSep(a) == a \in {SP, SP2, TAB}

IssueIdPool == <<"SS-1", "SS-2", "SS-3", "SS-4", "SS-5", "SS-6">>

NoIssue == "null"

\* /^(\w+-\d+)/
IsIssueId(a) == \E k \in 1..Len(IssueIdPool) : IssueIdPool[k] = a

\* words made of letters and underscores only: /^[a-z_]+$/i
AlphaWords == {"open", "Open", "closed", "Closed", "in_progress", "Shell",
               "failures", "files"}

\* String.prototype.toLowerCase on a word
Lower(a) ==
    CASE a = "Open" -> "open"
      [] a = "Closed" -> "closed"
      [] a = "Shell" -> "shell"
      [] OTHER -> a

\* title.startsWith("[")
StartsWithBracket(text) == text # <<>> /\ text[1] \in {"[signals]"}

\* line 112
KNOWN_STATUSES == {"open", "in_progress", "pending", "active", "new", "backlog",
                   "todo", "blocked", "wontfix", "resolved"}

RECURSIVE TrimStart(_)
TrimStart(text) ==
    IF text # <<>> /\ IsSep(Head(text)) THEN TrimStart(Tail(text)) ELSE text

RECURSIVE TrimEnd(_)
TrimEnd(text) ==
    IF text # <<>> /\ IsSep(text[Len(text)])
    THEN TrimEnd(SubSeq(text, 1, Len(text) - 1)) ELSE text

Trim(text) == TrimEnd(TrimStart(text))

StartsWith(text, prefix) ==
    Len(prefix) <= Len(text) /\ SubSeq(text, 1, Len(prefix)) = prefix

\* Pattern descriptions, as text
Descriptions == {<<"Shell", SP, "failures">>, <<"Open", SP, "files">>}

TitlePrefixes == {<<"[signals]">>, <<>>}

\* lines 85-88
buildIssueTitle(pattern, prefix) ==
    IF prefix = <<>> THEN pattern.description
    ELSE prefix \o <<SP>> \o pattern.description

\* lines 24-32
meetsThreshold(pattern, cfg) ==
    /\ SEVERITY_RANK[pattern.severity] >= SEVERITY_RANK[cfg.min_severity]
    /\ pattern.frequency >= cfg.min_frequency

isClosedLine_Never(rest) == FALSE

\* line 101: /^closed\b/i.test(rest)
isClosedLine(rest) == rest # <<>> /\ Lower(rest[1]) = "closed"

\* lines 107-115: strip one status word standing before the title
stripStatus(rest, title) ==
    IF StartsWithBracket(title)
    THEN IF Len(rest) >= 2 /\ rest[1] \in AlphaWords /\ IsSep(rest[2])
         THEN TrimStart(Tail(rest)) ELSE rest
    ELSE IF rest # <<>> /\ Lower(rest[1]) \in KNOWN_STATUSES
         THEN TrimStart(Tail(rest)) ELSE rest

\* lines 119-126
titleMatches(rest, title) ==
    \/ rest = title
    \/ TrimEnd(rest) = title
    \/ /\ StartsWith(rest, title)
       /\ Len(rest) > Len(title) => rest[Len(title) + 1] \in {TAB, SP2}

\* lines 93-126: the issue id one line yields, NoIssue when it yields none
matchLine(line, title) ==
    IF line = <<>> \/ ~IsIssueId(line[1]) THEN NoIssue
    ELSE LET rest == Trim(Tail(line))
         IN  IF isClosedLine(rest) THEN NoIssue
             ELSE IF titleMatches(stripStatus(rest, title), title) THEN line[1]
             ELSE NoIssue

\* lines 90-131, on the lines of the search output
RECURSIVE findExistingIssue(_, _)
findExistingIssue(lines, title) ==
    IF lines = <<>> THEN NoIssue
    ELSE IF matchLine(Head(lines), title) # NoIssue
         THEN matchLine(Head(lines), title)
         ELSE findExistingIssue(Tail(lines), title)

\* An issue of the tracker and how `bd search` prints it: id, the status
\* (always printed for a closed issue, optional otherwise), the title, and
\* optionally a further column.
IssueStatuses == {"open", "closed"}

Columns == {<<>>, <<TAB, "P1">>}

IssueTitles ==
    { buildIssueTitle([description |-> d], p) : d \in Descriptions, p \in TitlePrefixes }

IssuesAt(k) ==
    { [id |-> IssueIdPool[k], status |-> s, title |-> t, showStatus |-> sh,
       trailing |-> c] :
        s \in IssueStatuses, t \in IssueTitles, sh \in BOOLEAN, c \in Columns }
    \ { i \in [id : {IssueIdPool[k]}, status : {"closed"}, title : IssueTitles,
               showStatus : {FALSE}, trailing : Columns] : TRUE }

\* the further column of the listing: every line has it or none has
columnsOf(issues) == IF issues = <<>> THEN <<>> ELSE issues[1].trailing

RECURSIVE Trackers(_)
Trackers(n) ==
    IF n = 0 THEN { <<>> }
    ELSE Trackers(n - 1) \cup
         UNION { { Append(t, i) : i \in { x \in IssuesAt(n) :
                                             n > 1 => x.trailing = columnsOf(t) } } :
                 t \in { u \in Trackers(n - 1) : Len(u) = n - 1 } }

renderIssue(issue) ==
    <<issue.id, SP2>>
    \o (IF issue.showStatus THEN <<issue.status, SP2>> ELSE <<>>)
    \o issue.title \o issue.trailing

\* BeadsCli.search: stdout, one line per issue
searchOutput(issues) == [k \in 1..Len(issues) |-> renderIssue(issues[k])]

BeadsPatternsAt(k) ==
    [id : {IdPool[k]}, description : Descriptions, severity : {"medium"},
     frequency : {1, 2}]

RECURSIVE BeadsPatternLists(_)
BeadsPatternLists(n) ==
    IF n = 0 THEN { <<>> }
    ELSE BeadsPatternLists(n - 1) \cup
         { Append(l, p) : l \in { u \in BeadsPatternLists(n - 1) : Len(u) = n - 1 },
                          p \in BeadsPatternsAt(n) }

BeadsConfigs ==
    [enabled : BOOLEAN, min_severity : {"medium"}, min_frequency : {2},
     title_prefix : TitlePrefixes]

BeadsResult(pattern, action, title, reason) ==
    [pattern_id |-> pattern.id, action |-> action, issue_title |-> title,
     reason |-> reason]

\* one bd command: seen is what the tracker held when it was searched
BeadsCall(op, i, id, title, ok, seen) ==
    [op |-> op, pat |-> i, id |-> id, title |-> title, ok |-> ok, seen |-> seen]

\* the tracker really holds an issue with this title that is not closed
HasOpenIssue(issues, title) ==
    \E k \in 1..Len(issues) : issues[k].title = title /\ issues[k].status # "closed"

BeadsInit ==
    /\ bpatterns \in BeadsPatternLists(MaxBeadsPatterns)
    /\ bconfig \in BeadsConfigs
    /\ tracker \in Trackers(MaxIssues)
    /\ bdAvailable \in BOOLEAN
    /\ bpc = "start"
    /\ bidx = 1
    /\ bresults = <<>>
    /\ blog = <<>>

\* line 191
BeadsDisabled ==
    /\ bpc = "start"
    /\ ~bconfig.enabled
    /\ bpc' = "done"
    /\ UNCHANGED <<bpatterns, bconfig, tracker, bdAvailable, bidx, bresults, blog,
                   autofixVars, taggerVars, cleanupVars, adapterVars, analyzerVars,
                   libVars>>

\* lines 197-206
BeadsUnavailable ==
    /\ bpc = "start"
    /\ bconfig.enabled
    /\ ~bdAvailable
    /\ bresults' = [k \in 1..Len(bpatterns) |->
           BeadsResult(bpatterns[k], "skipped",
                       buildIssueTitle(bpatterns[k], bconfig.title_prefix),
                       "bd CLI not available")]
    /\ bpc' = "done"
    /\ UNCHANGED <<bpatterns, bconfig, tracker, bdAvailable, bidx, blog,
                   autofixVars, taggerVars, cleanupVars, adapterVars, analyzerVars,
                   libVars>>

BeadsBegin ==
    /\ bpc = "start"
    /\ bconfig.enabled
    /\ bdAvailable
    /\ bpc' = "loop"
    /\ UNCHANGED <<bpatterns, bconfig, tracker, bdAvailable, bidx, bresults, blog,
                   autofixVars, taggerVars, cleanupVars, adapterVars, analyzerVars,
                   libVars>>

InBeadsLoop == bpc = "loop" /\ bidx <= Len(bpatterns)

\* lines 211-219
BeadsSkipBelowThreshold ==
    /\ InBeadsLoop
    /\ ~meetsThreshold(bpatterns[bidx], bconfig)
    /\ bresults' = Append(bresults,
           BeadsResult(bpatterns[bidx], "skipped",
                       buildIssueTitle(bpatterns[bidx], bconfig.title_prefix),
                       "Below threshold"))
    /\ bidx' = bidx + 1
    /\ UNCHANGED <<bpatterns, bconfig, tracker, bdAvailable, bpc, blog,
                   autofixVars, taggerVars, cleanupVars, adapterVars, analyzerVars,
                   libVars>>

\* lines 221-249: search, then comment on the issue found or create one; a
\* bd command that fails lands in the catch
BeadsFile ==
    /\ InBeadsLoop
    /\ meetsThreshold(bpatterns[bidx], bconfig)
    /\ LET pattern == bpatterns[bidx]
           title == buildIssueTitle(pattern, bconfig.title_prefix)
           existingId == findExistingIssue(searchOutput(tracker), title)
           newId == IssueIdPool[Len(tracker) + 1]
           failed == BeadsResult(pattern, "skipped", title, "Error")
       IN  \E searchOk \in BOOLEAN, writeOk \in BOOLEAN, sh \in BOOLEAN :
             LET search == BeadsCall("search", bidx,
                               IF searchOk THEN existingId ELSE NoIssue,
                               title, searchOk, tracker)
             IN  IF ~searchOk
                 THEN /\ blog' = Append(blog, search)
                      /\ bresults' = Append(bresults, failed)
                      /\ UNCHANGED tracker
                 ELSE IF existingId # NoIssue
                 THEN /\ blog' = blog \o
                          <<search, BeadsCall("addComment", bidx, existingId, title, writeOk, <<>>)>>
                      /\ bresults' = Append(bresults,
                             IF writeOk THEN BeadsResult(pattern, "updated", title, "none")
                             ELSE failed)
                      /\ UNCHANGED tracker
                 ELSE /\ blog' = blog \o
                          <<search, BeadsCall("create", bidx, newId, title, writeOk, <<>>)>>
                      /\ bresults' = Append(bresults,
                             IF writeOk THEN BeadsResult(pattern, "created", title, "none")
                             ELSE failed)
                      /\ tracker' = IF writeOk
                                    THEN Append(tracker,
                                             [id |-> newId, status |-> "open",
                                              title |-> title, showStatus |-> sh,
                                              trailing |-> columnsOf(tracker)])
                                    ELSE tracker
    /\ bidx' = bidx + 1
    /\ UNCHANGED <<bpatterns, bconfig, bdAvailable, bpc,
                   autofixVars, taggerVars, cleanupVars, adapterVars, analyzerVars,
                   libVars>>

\* line 252
BeadsReturn ==
    /\ bpc = "loop"
    /\ bidx > Len(bpatterns)
    /\ bpc' = "done"
    /\ UNCHANGED <<bpatterns, bconfig, tracker, bdAvailable, bidx, bresults, blog,
                   autofixVars, taggerVars, cleanupVars, adapterVars, analyzerVars,
                   libVars>>

BeadsNext ==
    \/ BeadsDisabled
    \/ BeadsUnavailable
    \/ BeadsBegin
    \/ BeadsSkipBelowThreshold
    \/ BeadsFile
    \/ BeadsReturn

BeadsIdle ==
    /\ bpatterns = <<>>
    /\ bconfig = [enabled |-> FALSE, min_severity |-> "medium", min_frequency |-> 2,
                  title_prefix |-> <<"[signals]">>]
    /\ tracker = <<>>
    /\ bdAvailable = TRUE
    /\ bpc = "idle"
    /\ bidx = 1
    /\ bresults = <<>>
    /\ blog = <<>>

-----------------------------------------------------------------------------
(* Timestamps of Normalized Events *)

\* A timestamp string is kept as what the code does with it: lex is the
\* string as far as String.prototype.localeCompare sees it (compared
\* lexicographically), parsed is what Date.parse makes of it ({} for NaN,
\* {ms} otherwise).
Timestamp(lex, parsed) == [lex |-> lex, parsed |-> parsed]

MS_PER_MINUTE == 60000

\* Date.prototype.toISOString: YYYY-MM-DDTHH:MM then SS.sssZ
toISOString(ms) == Timestamp(<<ms \div MS_PER_MINUTE, ms % MS_PER_MINUTE>>, {ms})

\* Date.parse / new Date(ts).getTime() of a timestamp that parses
getTime(ts) == CHOOSE n \in ts.parsed : TRUE

RECURSIVE LexLess(_, _)
LexLess(a, b) ==
    IF a = <<>> THEN b # <<>>
    ELSE IF b = <<>> THEN FALSE
    ELSE IF Head(a) # Head(b) THEN Head(a) < Head(b)
    ELSE LexLess(Tail(a), Tail(b))

localeCompare(a, b) ==
    IF LexLess(a.lex, b.lex) THEN -1 ELSE IF LexLess(b.lex, a.lex) THEN 1 ELSE 0

\* Timestamps a raw log can carry: two UTC instants in toISOString form, a
\* text that does not parse (it sorts after both) and an instant written
\* with a zone offset (it sorts last and is the earliest instant).
RawTimestamps ==
    { toISOString(1), toISOString(2),
      Timestamp(<<0, 2, 1>>, {}), Timestamp(<<0, 3, 1>>, {1}) }

NormalizedEvent(type, timestamp, session_id, ref) ==
    [type |-> type, timestamp |-> timestamp, session_id |-> session_id, ref |-> ref]

-----------------------------------------------------------------------------
(* adapters/claude-code.ts: the flat-hook adapter *)

MaxRawEvents == 3

SessionIds == {"s1", "s2"}

EventFiles == {1, 2}

\* hook_event_type and, for a Notification, payload.type
HookKinds ==
    { [hook_event_type |-> h, notif |-> "none"] :
        h \in {"SessionStart", "PreToolUse", "Stop"} }
    \cup { [hook_event_type |-> "Notification", notif |-> n] :
             n \in {"compaction", "other"} }

\* lines 44-53
HOOK_TYPE_MAP ==
    [PreToolUse |-> "tool_use", PostToolUse |-> "tool_result",
     UserPromptSubmit |-> "user_prompt", SessionStart |-> "session_start",
     SessionEnd |-> "session_end", Stop |-> "session_end",
     SubagentStop |-> "session_end", Notification |-> "compaction"]

\* lines 55-64; "null" when the record maps to no event
mapHookType(hookType, notif) ==
    IF hookType = "Notification"
    THEN IF notif = "compaction" THEN "compaction" ELSE "null"
    ELSE IF hookType \in DOMAIN HOOK_TYPE_MAP THEN HOOK_TYPE_MAP[hookType]
    ELSE "null"

\* The session under test ("s1") takes every shape; the other session has
\* one record shape, enough to see the session filter.
ClaudeRawEvents ==
    { [session_id |-> "s1", hook_event_type |-> k.hook_event_type,
       notif |-> k.notif, timestamp |-> t, file |-> f] :
        k \in HookKinds, t \in RawTimestamps, f \in EventFiles }
    \cup { [session_id |-> "s2", hook_event_type |-> "Stop", notif |-> "none",
            timestamp |-> toISOString(2), file |-> f] : f \in EventFiles }

RECURSIVE SeqsUpTo(_, _)
SeqsUpTo(S, n) ==
    IF n = 0 THEN { <<>> }
    ELSE SeqsUpTo(S, n - 1) \cup
         { Append(s, x) : s \in { u \in SeqsUpTo(S, n - 1) : Len(u) = n - 1 }, x \in S }

\* lines 156-186 and 208-238: parseEvents of one file, in line order
RECURSIVE parseClaudeFile(_, _, _)
parseClaudeFile(raws, f, k) ==
    IF k > Len(raws) THEN <<>>
    ELSE LET raw == raws[k]
             type == mapHookType(raw.hook_event_type, raw.notif)
         IN  (IF raw.file = f /\ type # "null"
              THEN <<NormalizedEvent(type, raw.timestamp, raw.session_id, k)>>
              ELSE <<>>)
             \o parseClaudeFile(raws, f, k + 1)

\* lines 245-264: the files in path order, unreadable ones skipped, events
\* of other sessions dropped
RECURSIVE collectEvents(_, _, _, _)
collectEvents(raws, readable, sid, f) ==
    IF f \notin EventFiles THEN <<>>
    ELSE (IF f \in readable
          THEN SelectSeq(parseClaudeFile(raws, f, 1), LAMBDA e : e.session_id = sid)
          ELSE <<>>)
         \o collectEvents(raws, readable, sid, f + 1)

\* lines 266-271: the comparator handed to Array.prototype.sort
compareEvents(a, b) ==
    IF a.timestamp.parsed = {} \/ b.timestamp.parsed = {}
    THEN localeCompare(a.timestamp, b.timestamp)
    ELSE getTime(a.timestamp) - getTime(b.timestamp)

IndexPermutations(n) ==
    { p \in [1..n -> 1..n] : \A i, j \in 1..n : i # j => p[i] # p[j] }

\* Array.prototype.sort (stable): the order in which every pair agrees with
\* the comparator, equal elements keeping their input order.  When the
\* comparator admits no such order (it is not a consistent comparator), the
\* order is implementation-defined.
sortOutcomes(seq) ==
    LET n == Len(seq)
        agree == { p \in IndexPermutations(n) :
                     \A i, j \in 1..n :
                         i < j => \/ compareEvents(seq[p[i]], seq[p[j]]) < 0
                                  \/ /\ compareEvents(seq[p[i]], seq[p[j]]) = 0
                                     /\ p[i] < p[j] }
        orders == IF agree # {} THEN agree ELSE IndexPermutations(n)
    IN  { [i \in 1..n |-> seq[p[i]]] : p \in orders }

ClaudeIdle ==
    /\ rawEvents = <<>>
    /\ allEvents = <<>>

GeminiIdle ==
    /\ history = <<>>
    /\ baseTimestamp = {}

PiIdle ==
    /\ entries = <<>>
    /\ linear = <<>>
    /\ pcur = 0

ClaudeInit ==
    /\ rawEvents \in SeqsUpTo(ClaudeRawEvents, MaxRawEvents)
    /\ sessionId = "s1"
    /\ sessionFile = "ok"
    /\ apc = "start"
    /\ allEvents = <<>>
    /\ events = <<>>
    /\ GeminiIdle
    /\ PiIdle

\* lines 242-264
ClaudeReadFiles ==
    /\ apc = "start"
    /\ \E readable \in SUBSET EventFiles :
           allEvents' = collectEvents(rawEvents, readable, sessionId, 1)
    /\ apc' = "sort"
    /\ UNCHANGED <<rawEvents, events, adapterInputs, geminiVars, piVars, nonAdapterVars>>

\* lines 266-271
ClaudeSortAndReturn ==
    /\ apc = "sort"
    /\ events' \in sortOutcomes(allEvents)
    /\ apc' = "done"
    /\ UNCHANGED <<rawEvents, allEvents, adapterInputs, geminiVars, piVars, nonAdapterVars>>

ClaudeNext ==
    \/ ClaudeReadFiles
    \/ ClaudeSortAndReturn


-----------------------------------------------------------------------------
(* adapters/gemini-cli.ts: the turn-based adapter *)

MaxTurns == 2

\* the clock read by parseHistory when the file name carries no timestamp
NowMs == 2 * MS_PER_MINUTE + 7

\* the timestamp hint of the file name: whole minutes, :00.000Z
FilenameMs == MS_PER_MINUTE

\* parts of one content entry, by what each part carries
PartLists ==
    { <<>>, <<"text">>, <<"functionCall">>, <<"functionResponse">>,
      <<"functionCall", "functionCall">>, <<"text", "functionCall">>,
      <<"functionResponse", "functionResponse">> }

\* a content entry without role (or without a parts array) is skipped
InvalidContent == [role |-> "none", parts |-> <<>>]

GeminiContents ==
    [role : {"user", "model"}, parts : PartLists] \cup {InvalidContent}

\* lines 83-158: the event type one part yields ("null" for none)
partToType(role, part) ==
    CASE part = "text" -> IF role = "user" THEN "user_prompt" ELSE "null"
      [] part = "functionCall" -> "tool_use"
      [] part = "functionResponse" -> "tool_result"
      [] OTHER -> "null"

\* lines 74-161
RECURSIVE contentToEvents(_, _, _, _, _)
contentToEvents(content, sid, baseTs, contentIndex, k) ==
    IF k > Len(content.parts) THEN <<>>
    ELSE LET type == partToType(content.role, content.parts[k])
         IN  (IF type # "null"
              THEN <<NormalizedEvent(type, baseTs, sid, contentIndex)>>
              ELSE <<>>)
             \o contentToEvents(content, sid, baseTs, contentIndex, k + 1)

\* line 260: each content entry is offset by its position
entryOffset(i) == i + 1

\* lines 253-264: i is the zero-based index into history
RECURSIVE historyEvents(_, _, _, _)
historyEvents(hist, sid, ts, i) ==
    IF i >= Len(hist) THEN <<>>
    ELSE LET content == hist[i + 1]
             entryTs == toISOString(getTime(ts) + entryOffset(i))
             here == IF content.role = "none" THEN <<>>
                     ELSE contentToEvents(content, sid, entryTs, i, 1)
         IN  here \o historyEvents(hist, sid, ts, i + 1)

\* lines 240-278
parseHistory(hist, sid, base) ==
    LET ts == IF base = {} THEN toISOString(NowMs)
              ELSE CHOOSE t \in base : TRUE
        endTs == toISOString(getTime(ts) + Len(hist) + 1)
    IN  <<NormalizedEvent("session_start", ts, sid, 0)>>
        \o historyEvents(hist, sid, ts, 0)
        \o <<NormalizedEvent("session_end", endTs, sid, 0)>>

GeminiInit ==
    /\ history \in SeqsUpTo(GeminiContents, MaxTurns)
    /\ baseTimestamp \in {{}, {toISOString(FilenameMs)}}
    /\ sessionFile \in {"missing", "malformed", "ok"}
    /\ sessionId = "s1"
    /\ apc = "start"
    /\ events = <<>>
    /\ ClaudeIdle
    /\ PiIdle

\* lines 213-237, 280-295: no file of that session, or a file that is not a
\* JSON object with a history array
GeminiNoEvents ==
    /\ apc = "start"
    /\ sessionFile # "ok"
    /\ events' = <<>>
    /\ apc' = "done"
    /\ UNCHANGED <<adapterInputs, claudeVars, geminiVars, piVars, nonAdapterVars>>

\* lines 231-232, 280-295, 240-278
GeminiParseSessionFile ==
    /\ apc = "start"
    /\ sessionFile = "ok"
    /\ events' = parseHistory(history, sessionId, baseTimestamp)
    /\ apc' = "done"
    /\ UNCHANGED <<adapterInputs, claudeVars, geminiVars, piVars, nonAdapterVars>>

GeminiNext ==
    \/ GeminiNoEvents
    \/ GeminiParseSessionFile

-----------------------------------------------------------------------------
(* adapters/pi-coding-agent.ts: the tree-based adapter *)

MaxEntries == 4

\* the while loop of linearizeEntries is followed for at most this many turns
MaxWalk == 6

\* session files whose ids and parent links are arbitrary
MaxLooseEntries == 3

EntryIdPool == <<"e1", "e2", "e3", "e4", "e5", "e6">>

\* what an entry carries besides its links: a message with a timestamp, or
\* an entry of an unmapped type without timestamp
EntryShapes ==
    { [timestamp |-> {toISOString(1)}, type |-> "message"],
      [timestamp |-> {toISOString(2)}, type |-> "message"],
      [timestamp |-> {}, type |-> "label"] }

\* The entry listed at position k: its parent is absent (null), an entry
\* listed before it, or, for the first entry, an id the file does not hold.
PiEntriesAt(k) ==
    { [id |-> EntryIdPool[k], parentId |-> p, timestamp |-> s.timestamp,
       type |-> s.type] :
        p \in {"null"} \cup { EntryIdPool[j] : j \in 1..(k - 1) }
              \cup (IF k = 1 THEN {"missing"} ELSE {}),
        s \in EntryShapes }

RECURSIVE PiEntryLists(_)
PiEntryLists(n) ==
    IF n = 0 THEN { <<>> }
    ELSE PiEntryLists(n - 1) \cup
         { Append(l, e) : l \in { u \in PiEntryLists(n - 1) : Len(u) = n - 1 },
                          e \in PiEntriesAt(n) }

\* lines 149-158: childrenOf.get(pid), as positions in listing order
childrenOf(ents, pid) == { k \in 1..Len(ents) : ents[k].parentId = pid }

Max(S) == CHOOSE x \in S : \A y \in S : y <= x

pickChild_First(children) ==
    IF children = {} THEN 0 ELSE CHOOSE x \in children : \A y \in children : x <= y

\* lines 168, 173: children[children.length - 1]; 0 stands for undefined
pickChild(children) == IF children = {} THEN 0 ELSE Max(children)

\* lines 52-142: the events of one entry
entryToEvents(entry, sid) ==
    LET ts == IF entry.timestamp = {} THEN toISOString(0)
              ELSE CHOOSE t \in entry.timestamp : TRUE
    IN  IF entry.type = "message"
        THEN <<NormalizedEvent("user_prompt", ts, sid, entry.id)>>
        ELSE <<>>

RECURSIVE entriesToEvents(_, _)
entriesToEvents(ents, sid) ==
    IF ents = <<>> THEN <<>>
    ELSE entryToEvents(Head(ents), sid) \o entriesToEvents(Tail(ents), sid)

\* lines 221-248
piEvents(lin, sid) ==
    LET firstTs == IF lin = <<>> \/ lin[1].timestamp = {} THEN toISOString(0)
                   ELSE CHOOSE t \in lin[1].timestamp : TRUE
        lastTs == IF lin = <<>> \/ lin[Len(lin)].timestamp = {} THEN firstTs
                  ELSE CHOOSE t \in lin[Len(lin)].timestamp : TRUE
    IN  <<NormalizedEvent("session_start", firstTs, sid, "start")>>
        \o entriesToEvents(lin, sid)
        \o <<NormalizedEvent("session_end", lastTs, sid, "end")>>

PiInit ==
    /\ entries \in PiEntryLists(MaxEntries)
    /\ sessionFile \in {"missing", "ok"}
    /\ sessionId = "s1"
    /\ apc = "start"
    /\ linear = <<>>
    /\ pcur = 0
    /\ events = <<>>
    /\ ClaudeIdle
    /\ GeminiIdle

\* Session files as isPiEntry admits them (lines 200-216): any id and any
\* parentId on every line, so ids may repeat and parent links may point
\* forward, at the entry itself, or around a cycle.
LooseEntriesAt ==
    { [id |-> i, parentId |-> p, timestamp |-> {toISOString(1)}, type |-> "message"] :
        i \in { EntryIdPool[j] : j \in 1..MaxLooseEntries },
        p \in {"null"} \cup { EntryIdPool[j] : j \in 1..MaxLooseEntries } }

RECURSIVE LooseEntryLists(_)
LooseEntryLists(n) ==
    IF n = 0 THEN { <<>> }
    ELSE LooseEntryLists(n - 1) \cup
         { Append(l, e) : l \in { u \in LooseEntryLists(n - 1) : Len(u) = n - 1 },
                          e \in LooseEntriesAt }

LinearizeInit ==
    /\ entries \in LooseEntryLists(MaxLooseEntries)
    /\ sessionFile \in {"missing", "ok"}
    /\ sessionId = "s1"
    /\ apc = "start"
    /\ linear = <<>>
    /\ pcur = 0
    /\ events = <<>>
    /\ ClaudeIdle
    /\ GeminiIdle

\* lines 254-264: no file of that session, or a file that cannot be read
PiNoEvents ==
    /\ apc = "start"
    /\ sessionFile # "ok"
    /\ events' = <<>>
    /\ apc' = "done"
    /\ UNCHANGED <<adapterInputs, claudeVars, geminiVars, piVars, nonAdapterVars>>

\* lines 146-164: linearizeEntries up to the choice of the root
PiLinearizeBegin ==
    /\ apc = "start"
    /\ sessionFile = "ok"
    /\ IF entries = <<>>
       THEN /\ linear' = <<>>
            /\ pcur' = 0
            /\ apc' = "emit"
       ELSE IF childrenOf(entries, "null") = {}
       THEN /\ linear' = entries
            /\ pcur' = 0
            /\ apc' = "emit"
       ELSE /\ linear' = <<>>
            /\ pcur' = pickChild(childrenOf(entries, "null"))
            /\ apc' = "walk"
    /\ UNCHANGED <<entries, events, adapterInputs, claudeVars, geminiVars,
                   nonAdapterVars>>

\* lines 169-173: one turn of the while loop
PiWalkStep ==
    /\ apc = "walk"
    /\ pcur # 0
    /\ Len(linear) < MaxWalk
    /\ linear' = Append(linear, entries[pcur])
    /\ pcur' = pickChild(childrenOf(entries, entries[pcur].id))
    /\ UNCHANGED <<entries, events, apc, adapterInputs, claudeVars, geminiVars,
                   nonAdapterVars>>

\* line 175
PiWalkDone ==
    /\ apc = "walk"
    /\ pcur = 0
    /\ apc' = "emit"
    /\ UNCHANGED <<entries, linear, pcur, events, adapterInputs, claudeVars,
                   geminiVars, nonAdapterVars>>

\* lines 221-250
PiEmit ==
    /\ apc = "emit"
    /\ events' = piEvents(linear, sessionId)
    /\ apc' = "done"
    /\ UNCHANGED <<entries, linear, pcur, adapterInputs, claudeVars, geminiVars,
                   nonAdapterVars>>

PiNext ==
    \/ PiNoEvents
    \/ PiLinearizeBegin
    \/ PiWalkStep
    \/ PiWalkDone
    \/ PiEmit

AdapterIdle ==
    /\ sessionId = "s1"
    /\ sessionFile = "ok"
    /\ apc = "idle"
    /\ events = <<>>
    /\ ClaudeIdle
    /\ GeminiIdle
    /\ PiIdle

-----------------------------------------------------------------------------
(* lib/ollama-client.ts: createOllamaClient, generate, generateJSON *)

DEFAULT_MAX_RETRIES == 3

BACKOFF_BASE_MS == 1000

\* options.timeoutMs, in ticks of the model's clock
TimeoutTicks == 2

\* how long past the timeout the model lets a response body dribble in
MaxBodyTicks == 1

MaxRetriesOption == 2

MaxRetriesOptions == { {} } \cup { {n} : n \in 0..MaxRetriesOption }

\* line 64: options.maxRetries ?? DEFAULT_MAX_RETRIES
maxRetries_Of(opt) ==
    IF opt = {} THEN DEFAULT_MAX_RETRIES ELSE CHOOSE n \in opt : TRUE

maxRetries == maxRetries_Of(maxRetriesOpt)

\* The `response` strings the backend may answer with
Texts == { <<"{", "}">>, <<"{">>, <<"[">> }

\* JSON.parse: the value, or {} when it throws SyntaxError
JSONparse(text) ==
    IF text = <<"{", "}">> THEN {"object"}
    ELSE IF text = <<"[", "]">> THEN {"array"}
    ELSE {}

OllamaError(message) == [name |-> "OllamaError", message |-> message]

OllamaConnectionError(cause) == [name |-> "OllamaConnectionError", cause |-> cause]

OllamaParseError(rawResponse, cause) ==
    [name |-> "OllamaParseError", rawResponse |-> rawResponse, cause |-> cause]

SyntaxError == [name |-> "SyntaxError"]

TypeError == [name |-> "TypeError"]

AbortError == [name |-> "AbortError"]

Undefined == [name |-> "undefined"]

instanceofOllamaError(err) ==
    err.name \in {"OllamaError", "OllamaConnectionError", "OllamaParseError"}

\* lines 113-123: what the catch block leaves in lastError
caught(err) ==
    IF err.name \in {"TypeError", "AbortError"} THEN OllamaConnectionError(err)
    ELSE err

\* line 91: BACKOFF_BASE_MS * Math.pow(2, attempt - 1)
backoff(n) == BACKOFF_BASE_MS * 2 ^ (n - 1)

\* One HTTP attempt: which generate call, which attempt, how it ended and,
\* when it ended in a string `response`, that text
Fetch(g, n, outcome, text) ==
    [gen |-> g, attempt |-> n, outcome |-> outcome, text |-> text]

Resolved(value) == [kind |-> "returned", value |-> value]

Rejected(err) == [kind |-> "threw", error |-> err]

Pending == [kind |-> "pending"]

OllamaInit ==
    /\ ocall \in {"generate", "generateJSON"}
    /\ maxRetriesOpt \in MaxRetriesOptions
    /\ opc = "loop"
    /\ gen = 1
    /\ attempt = 0
    /\ elapsed = 0
    /\ lastError = Undefined
    /\ sleeps = <<>>
    /\ fetches = <<>>
    /\ rawText = <<>>
    /\ oresult = Pending

ollamaInputs == <<ocall, maxRetriesOpt>>

ollamaFrame == <<pipelineVars, analyzeVars, trendVars, heuristicVars, libVars>>

\* lines 89-99: the loop admits another attempt, sleeps before a retry and
\* starts the fetch with its abort timer armed (lines 67-68)
AttemptBegin ==
    /\ opc = "loop"
    /\ attempt < maxRetries
    /\ sleeps' = IF attempt > 0 THEN Append(sleeps, backoff(attempt)) ELSE sleeps
    /\ opc' = "fetching"
    /\ elapsed' = 0
    /\ UNCHANGED <<ollamaInputs, gen, attempt, lastError, fetches, rawText, oresult,
                   ollamaFrame>>

\* time passes while fetch() is pending; the timer fires at timeoutMs
FetchTick ==
    /\ opc = "fetching"
    /\ elapsed < TimeoutTicks
    /\ elapsed' = elapsed + 1
    /\ UNCHANGED <<ollamaInputs, opc, gen, attempt, lastError, sleeps, fetches,
                   rawText, oresult, ollamaFrame>>

\* lines 112-124: the attempt failed with err; the loop goes on
attemptFailed(outcome, err) ==
    /\ lastError' = caught(err)
    /\ fetches' = Append(fetches, Fetch(gen, attempt, outcome, <<>>))
    /\ attempt' = attempt + 1
    /\ opc' = "loop"
    /\ UNCHANGED <<ollamaInputs, gen, elapsed, sleeps, rawText, oresult, ollamaFrame>>

\* line 68: controller.abort() rejects the pending fetch with AbortError
FetchAborted ==
    /\ opc = "fetching"
    /\ elapsed = TimeoutTicks
    /\ attemptFailed("aborted", AbortError)

\* line 70: fetch rejects (connection refused, reset): TypeError
FetchRejected ==
    /\ opc = "fetching"
    /\ attemptFailed("rejected", TypeError)

\* lines 70-73: fetch resolves with the response head; finally clears the timer
FetchResolved ==
    /\ opc = "fetching"
    /\ \E ok \in BOOLEAN : opc' = IF ok THEN "reading" ELSE "readingError"
    /\ UNCHANGED <<ollamaInputs, gen, attempt, elapsed, lastError, sleeps,
                   fetches, rawText, oresult, ollamaFrame>>

\* lines 102, 105: the body is still arriving; no timer is armed any more
BodyTick ==
    /\ opc \in {"reading", "readingError"}
    /\ elapsed < TimeoutTicks + MaxBodyTicks
    /\ elapsed' = elapsed + 1
    /\ UNCHANGED <<ollamaInputs, opc, gen, attempt, lastError, sleeps, fetches,
                   rawText, oresult, ollamaFrame>>

\* lines 101-103: !response.ok, the status and body text become an OllamaError;
\* a body that breaks off rejects response.text() with TypeError
HttpError ==
    /\ opc = "readingError"
    /\ \/ attemptFailed("http", OllamaError("HTTP"))
       \/ attemptFailed("dropped", TypeError)

\* lines 105-109: the body is not JSON, breaks off, or lacks a string `response`
BodyUnusable ==
    /\ opc = "reading"
    /\ \/ attemptFailed("badbody", SyntaxError)
       \/ attemptFailed("dropped", TypeError)
       \/ attemptFailed("missing", OllamaError("missing"))

\* lines 140-143: a response that does not parse is regenerated, once
regenerates_Again(g) == g <= 2

regenerates(g) == g = 1

\* generate has returned text (line 111): the caller's continuation,
\* lines 136-148 for generateJSON
generateReturns(text) ==
    /\ fetches' = Append(fetches, Fetch(gen, attempt, "ok", text))
    /\ IF ocall = "generate"
       THEN /\ oresult' = Resolved(text)
            /\ opc' = "done"
            /\ UNCHANGED <<gen, attempt, lastError, rawText>>
       ELSE IF JSONparse(text) # {}
       THEN /\ oresult' = Resolved(CHOOSE v \in JSONparse(text) : TRUE)
            /\ opc' = "done"
            /\ rawText' = IF gen = 1 THEN text ELSE rawText
            /\ UNCHANGED <<gen, attempt, lastError>>
       ELSE IF regenerates(gen)
       THEN /\ rawText' = IF gen = 1 THEN text ELSE rawText
            /\ gen' = gen + 1
            /\ attempt' = 0
            /\ lastError' = Undefined
            /\ opc' = "loop"
            /\ UNCHANGED oresult
       ELSE /\ oresult' = Rejected(OllamaParseError(rawText, SyntaxError))
            /\ opc' = "done"
            /\ UNCHANGED <<gen, attempt, lastError, rawText>>
    /\ UNCHANGED <<ollamaInputs, elapsed, sleeps, ollamaFrame>>

\* lines 105-111
BodyText ==
    /\ opc = "reading"
    /\ \E text \in Texts : generateReturns(text)

\* lines 127-129: the loop is over without a return; lines 136, 143-147: the
\* first generate's error propagates, the second one's becomes a parse error
Exhausted ==
    /\ opc = "loop"
    /\ attempt >= maxRetries
    /\ LET err == IF instanceofOllamaError(lastError) THEN lastError
                  ELSE OllamaConnectionError(lastError)
       IN  oresult' = IF ocall = "generateJSON" /\ gen = 2
                      THEN Rejected(OllamaParseError(rawText, err))
                      ELSE Rejected(err)
    /\ opc' = "done"
    /\ UNCHANGED <<ollamaInputs, gen, attempt, elapsed, lastError, sleeps,
                   fetches, rawText, ollamaFrame>>

OllamaNext ==
    \/ AttemptBegin
    \/ FetchTick
    \/ FetchAborted
    \/ FetchRejected
    \/ FetchResolved
    \/ BodyTick
    \/ HttpError
    \/ BodyUnusable
    \/ BodyText
    \/ Exhausted

OllamaIdle ==
    /\ ocall = "generate"
    /\ maxRetriesOpt = {}
    /\ opc = "idle"
    /\ gen = 0
    /\ attempt = 0
    /\ elapsed = 0
    /\ lastError = Undefined
    /\ sleeps = <<>>
    /\ fetches = <<>>
    /\ rawText = <<>>
    /\ oresult = Pending

-----------------------------------------------------------------------------
(* lib/pattern-analyzer.ts: analyzeScope *)

MaxRecords == 2

MaxSignalsPerRecord == 2

MinSessionSignalsChoices == 0..2

\* JSON values as JSON.parse hands them over: t is the typeof / Array.isArray
\* class, items the elements of an array, keys the own keys of an object
JNumber == [t |-> "number"]

JString == [t |-> "string"]

JUndefined == [t |-> "undefined"]

JArray(items) == [t |-> "array", items |-> items]

JObject(keys) == [t |-> "object", keys |-> keys]

\* lines 361-376: the keys of a Pattern in the schema the prompt spells out
PATTERN_KEYS ==
    {"id", "type", "scope", "description", "severity", "frequency", "trend",
     "root_cause_hypothesis", "suggested_fix", "auto_fixable", "fix_scope",
     "affected_files"}

\* lines 377-382
DELIGHT_KEYS == {"description", "insight"}

\* Elements the model may put in an array
PatternItems == { JObject(PATTERN_KEYS), JObject({"id"}), JNumber }

DelightItems == { JObject(DELIGHT_KEYS), JString }

\* What client.generateJSON may resolve with: any JSON value
PatternsFields ==
    { JUndefined, JString } \cup
    { JArray(<<>>) } \cup { JArray(<<p>>) : p \in PatternItems }

DelightFields ==
    { JUndefined, JNumber } \cup
    { JArray(<<>>) } \cup { JArray(<<d>>) : d \in DelightItems }

SummaryFields == { JUndefined, JString, JNumber }

ResponseValues ==
    { [t |-> "null"], JNumber } \cup
    { [t |-> "object", patterns |-> p, delight_patterns |-> d, summary |-> s] :
        p \in PatternsFields, d \in DelightFields, s \in SummaryFields }

EMPTY_ANALYSIS ==
    [t |-> "object", patterns |-> JArray(<<>>), delight_patterns |-> JArray(<<>>),
     summary |-> JString]

\* lines 409-413
isPatternAnalysis(obj) ==
    /\ obj.t = "object"
    /\ obj.patterns.t = "array"
    /\ obj.summary.t = "string"

\* line 424: records.filter(r => r.signals.length >= min_session_signals)
withSignals_AnySignal(recs, min) == SelectSeq(recs, LAMBDA r : r > 0)

withSignals(recs, min) == SelectSeq(recs, LAMBDA r : r >= min)

AnalysisResult(analysis, skipped) == [analysis |-> analysis, skipped |-> skipped]

RecordLists == SeqsUpTo(0..MaxSignalsPerRecord, MaxRecords)

AnalyzeInit ==
    /\ records \in RecordLists
    /\ minSessionSignals \in MinSessionSignalsChoices
    /\ anpc = "start"
    /\ available = "unasked"
    /\ generations = 0
    /\ warnings = <<>>
    /\ analysisResult = Pending

analyzeInputs == <<records, minSessionSignals>>

analyzeFrame == <<pipelineVars, ollamaVars, trendVars, heuristicVars, libVars>>

\* lines 424-427
AnalyzeNoSignals ==
    /\ anpc = "start"
    /\ withSignals(records, minSessionSignals) = <<>>
    /\ analysisResult' = AnalysisResult(EMPTY_ANALYSIS, TRUE)
    /\ anpc' = "done"
    /\ UNCHANGED <<analyzeInputs, available, generations, warnings, analyzeFrame>>

\* lines 429-433: client.isAvailable() answers
AnalyzeIsAvailable ==
    /\ anpc = "start"
    /\ withSignals(records, minSessionSignals) # <<>>
    /\ \E a \in BOOLEAN :
        /\ available' = (IF a THEN "yes" ELSE "no")
        /\ IF a
           THEN /\ anpc' = "generating"
                /\ generations' = generations + 1     \* line 438
                /\ UNCHANGED <<warnings, analysisResult>>
           ELSE /\ warnings' = Append(warnings, "not available")
                /\ analysisResult' = AnalysisResult(EMPTY_ANALYSIS, TRUE)
                /\ anpc' = "done"
                /\ UNCHANGED generations
    /\ UNCHANGED <<analyzeInputs, analyzeFrame>>

\* lines 438-447: generateJSON resolves
AnalyzeResponse ==
    /\ anpc = "generating"
    /\ \E result \in ResponseValues :
        IF isPatternAnalysis(result)
        THEN /\ analysisResult' = AnalysisResult(result, FALSE)
             /\ UNCHANGED warnings
        ELSE /\ warnings' = Append(warnings, "unexpected shape")
             /\ analysisResult' = AnalysisResult(EMPTY_ANALYSIS, TRUE)
    /\ anpc' = "done"
    /\ UNCHANGED <<analyzeInputs, available, generations, analyzeFrame>>

\* lines 448-451: generateJSON rejects
AnalyzeGenerateThrows ==
    /\ anpc = "generating"
    /\ warnings' = Append(warnings, "failed")
    /\ analysisResult' = AnalysisResult(EMPTY_ANALYSIS, TRUE)
    /\ anpc' = "done"
    /\ UNCHANGED <<analyzeInputs, available, generations, analyzeFrame>>

AnalyzeNext ==
    \/ AnalyzeNoSignals
    \/ AnalyzeIsAvailable
    \/ AnalyzeResponse
    \/ AnalyzeGenerateThrows

AnalyzeIdle ==
    /\ records = <<>>
    /\ minSessionSignals = 0
    /\ anpc = "idle"
    /\ available = "unasked"
    /\ generations = 0
    /\ warnings = <<>>
    /\ analysisResult = Pending

-----------------------------------------------------------------------------
(* lib/pattern-analyzer.ts: classifyTrend *)

MaxDays == 6

\* Per-day counts of one signal type (line 280)
DayCounts == {0, 1, 3, 5}

RECURSIVE Sum(_)
\* reduce((a, b) => a + b, 0)
Sum(s) == IF s = <<>> THEN 0 ELSE Head(s) + Sum(Tail(s))

\* a > b * (num / 10) for the decimal literals 1.2 and 0.8; on integer counts
\* the double product rounds to the exact value whenever that is an integer
exceedsTimes_OrEqual(a, b, tenths) == a * 10 >= b * tenths

exceedsTimes(a, b, tenths) == a * 10 > b * tenths

belowTimes(a, b, tenths) == a * 10 < b * tenths

\* line 293
tooFewActiveDays_Two(activeDays) == activeDays < 2

tooFewActiveDays(activeDays) == activeDays < 3

\* lines 280-303
classifyTrend(cnts) ==
    LET n == Len(cnts)
        nonZeroIndices == { i \in 1..n : cnts[i] > 0 }
        activeDays == Cardinality(nonZeroIndices)
        mid == n \div 2
        firstHalf == Sum(SubSeq(cnts, 1, mid))
        secondHalf == Sum(SubSeq(cnts, mid + 1, n))
    IN  IF activeDays = 0 THEN "new"
        ELSE IF Cardinality(nonZeroIndices) = 1 /\ nonZeroIndices = {n} THEN "new"
        ELSE IF tooFewActiveDays(activeDays) THEN "new"
        ELSE IF exceedsTimes(secondHalf, firstHalf, 12) THEN "increasing"
        ELSE IF belowTimes(secondHalf, firstHalf, 8) THEN "decreasing"
        ELSE "stable"

TrendInit ==
    /\ counts \in SeqsUpTo(DayCounts, MaxDays)
    /\ trpc = "start"
    /\ trend = "none"

ClassifyTrend ==
    /\ trpc = "start"
    /\ trend' = classifyTrend(counts)
    /\ trpc' = "done"
    /\ UNCHANGED <<counts, pipelineVars, ollamaVars, analyzeVars, heuristicVars,
                   libVars>>

TrendNext == ClassifyTrend

TrendIdle ==
    /\ counts = <<>>
    /\ trpc = "idle"
    /\ trend = "none"

-----------------------------------------------------------------------------
(* lib/heuristics.ts: the friction detectors *)

\* A NormalizedEvent with the fields the detectors read. tool_input is {}
\* when absent and {input} otherwise; success is tool_result?.success:
\* "true", "false" or "undefined"
SessionEvent(type, timestamp, tool_name, tool_input, success) ==
    [type |-> type, timestamp |-> timestamp, tool_name |-> tool_name,
     tool_input |-> tool_input, success |-> success]

MS_PER_SECOND == 1000

AtSecond(s) == toISOString(s * MS_PER_SECOND)

InvalidTimestamp == Timestamp(<<9>>, {})

PlainEvent(type, ts) == SessionEvent(type, ts, "none", {}, "undefined")

ToolResultEvent(success, ts) == SessionEvent("tool_result", ts, "shell_exec", {}, success)

ToolUseEvent(name, input) == SessionEvent("tool_use", AtSecond(0), name, input, "undefined")

TaggerConfig(cascadeMin, window, stall, retryMin, retrySimilarity) ==
    [tool_failure_cascade_min |-> cascadeMin, abandon_window_seconds |-> window,
     stall_threshold_seconds |-> stall, retry_loop_min |-> retryMin,
     retry_similarity |-> retrySimilarity]

\* A similarity threshold num/den, strictly between 0 and 1
Similarity(num, den) == [num |-> num, den |-> den]

DefaultSimilarity == Similarity(4, 5)

FrictionSignal(type, severity, count, event_indices) ==
    [type |-> type, severity |-> severity, count |-> count,
     event_indices |-> event_indices]

NullSignal == FrictionSignal("null", "none", 0, <<>>)

Min3(a, b, c) == IF a <= b /\ a <= c THEN a ELSE IF b <= c THEN b ELSE c

\* lines 59-66: one row of the table, curr[1] being column 0
RECURSIVE fillRow(_, _, _, _)
fillRow(prev, curr, ch, b) ==
    IF Len(curr) = Len(b) + 1 THEN curr
    ELSE LET j == Len(curr)
             cost == IF ch = b[j] THEN 0 ELSE 1
         IN  fillRow(prev,
                     Append(curr, Min3(prev[j + 1] + 1, curr[j] + 1, prev[j] + cost)),
                     ch, b)

RECURSIVE levenshteinRows(_, _, _, _)
levenshteinRows(prev, a, i, b) ==
    IF i > Len(a) THEN prev[Len(b) + 1]
    ELSE levenshteinRows(fillRow(prev, <<i>>, a[i], b), a, i + 1, b)

\* lines 45-71
levenshteinDistance(a, b) ==
    IF Len(a) = 0 THEN Len(b)
    ELSE IF Len(b) = 0 THEN Len(a)
    ELSE levenshteinRows([j \in 1..(Len(b) + 1) |-> j - 1], a, 1, b)

\* lines 74-78 with the comparison of lines 121, 357: ratio >= threshold, where
\* ratio = 1 - distance / maxLen
ratioAtLeast(a, b, threshold) ==
    LET maxLen == IF Len(a) >= Len(b) THEN Len(a) ELSE Len(b)
    IN  \/ maxLen = 0
        \/ (maxLen - levenshteinDistance(a, b)) * threshold.den
              >= threshold.num * maxLen

\* lines 82-87, in milliseconds: {} is NaN
timeDiffSeconds(a, b) ==
    IF a.parsed = {} \/ b.parsed = {} THEN {} ELSE { getTime(b) - getTime(a) }

\* lines 89-93
severityFromCount(count, lowThreshold, highThreshold) ==
    IF count >= highThreshold THEN "high"
    ELSE IF count >= lowThreshold THEN "medium"
    ELSE "low"

\* JSON.stringify(tool_input) of an input { command: <chars> }
JSONstringify(input) == <<"{", "command", ":">> \o input \o <<"}">>

isFailure(event) == event.type = "tool_result" /\ event.success = "false"

isSuccess(event) == event.type = "tool_result" /\ event.success = "true"

\* line 159: does this tool_result extend the streak
extendsStreak_Unless(event) == event.success # "true"

extendsStreak(event) == event.success = "false"

\* lines 155-170
RECURSIVE cascadeLoop(_, _, _, _, _, _)
cascadeLoop(evts, i, currentStreak, streakIndices, maxStreak, bestIndices) ==
    IF i > Len(evts) THEN [maxStreak |-> maxStreak, bestIndices |-> bestIndices]
    ELSE IF evts[i].type # "tool_result"
    THEN cascadeLoop(evts, i + 1, currentStreak, streakIndices, maxStreak, bestIndices)
    ELSE IF extendsStreak(evts[i])
    THEN LET cs == currentStreak + 1
             si == Append(streakIndices, i)
         IN  IF cs > maxStreak
             THEN cascadeLoop(evts, i + 1, cs, si, cs, si)
             ELSE cascadeLoop(evts, i + 1, cs, si, maxStreak, bestIndices)
    ELSE cascadeLoop(evts, i + 1, 0, <<>>, maxStreak, bestIndices)

\* lines 146-186
detectToolFailureCascade(evts, cfg) ==
    LET r == cascadeLoop(evts, 1, 0, <<>>, 0, <<>>)
        min == cfg.tool_failure_cascade_min
    IN  IF r.maxStreak < min THEN NullSignal
        ELSE FrictionSignal("tool_failure_cascade",
                            severityFromCount(r.maxStreak, min, min * 2),
                            r.maxStreak, r.bestIndices)

\* line 271: the backward scan stops at the first event older than the window
outsideWindow_Inclusive(gap, window) == gap >= window * MS_PER_SECOND

outsideWindow(gap, window) == gap > window * MS_PER_SECOND

\* lines 267-276: indices of the failures, from the session end backwards
RECURSIVE abandonScan(_, _, _, _)
abandonScan(evts, i, endTs, window) ==
    IF i < 1 THEN <<>>
    ELSE LET gap == timeDiffSeconds(evts[i].timestamp, endTs)
         IN  IF gap = {} THEN abandonScan(evts, i - 1, endTs, window)
             ELSE IF outsideWindow(CHOOSE g \in gap : TRUE, window) THEN <<>>
             ELSE IF isFailure(evts[i])
             THEN <<i>> \o abandonScan(evts, i - 1, endTs, window)
             ELSE abandonScan(evts, i - 1, endTs, window)

\* lines 254-260: 0 stands for -1
lastSessionEnd(evts) ==
    LET ends == { i \in 1..Len(evts) : evts[i].type = "session_end" }
    IN  IF ends = {} THEN 0 ELSE Max(ends)

\* lines 249-297
detectAbandonSignal(evts, cfg) ==
    LET endIndex == lastSessionEnd(evts)
    IN  IF endIndex = 0 THEN NullSignal
        ELSE
        LET failures == abandonScan(evts, endIndex - 1, evts[endIndex].timestamp,
                                    cfg.abandon_window_seconds)
        IN  IF Len(failures) = 0 THEN NullSignal
            ELSE
            LET lastFailure == Max({ failures[k] : k \in 1..Len(failures) })
                hasSuccessAfter ==
                    \E j \in (lastFailure + 1)..(endIndex - 1) : isSuccess(evts[j])
            IN  IF hasSuccessAfter THEN NullSignal
                ELSE FrictionSignal("abandon_signal",
                                    severityFromCount(Len(failures), 1, 3),
                                    Len(failures), Append(failures, endIndex))

\* line 312
isStall(gap, threshold) == gap >= threshold * MS_PER_SECOND

\* lines 309-316
RECURSIVE stallLoop(_, _, _, _)
stallLoop(evts, i, threshold, acc) ==
    IF i > Len(evts) THEN acc
    ELSE LET gap == timeDiffSeconds(evts[i - 1].timestamp, evts[i].timestamp)
         IN  IF gap # {} /\ isStall(CHOOSE g \in gap : TRUE, threshold)
             THEN stallLoop(evts, i + 1, threshold,
                            [stalls |-> acc.stalls + 1,
                             indices |-> acc.indices \o <<i - 1, i>>])
             ELSE stallLoop(evts, i + 1, threshold, acc)

\* [...new Set(indices)]: first occurrences, in order
RECURSIVE dedupe(_)
dedupe(s) ==
    IF s = <<>> THEN <<>>
    ELSE LET init == dedupe(SubSeq(s, 1, Len(s) - 1))
             x == s[Len(s)]
         IN  IF \E k \in 1..Len(init) : init[k] = x THEN init ELSE Append(init, x)

\* lines 302-329
detectLongStall(evts, cfg) ==
    LET r == stallLoop(evts, 2, cfg.stall_threshold_seconds,
                       [stalls |-> 0, indices |-> <<>>])
    IN  IF r.stalls = 0 THEN NullSignal
        ELSE FrictionSignal("long_stall", severityFromCount(r.stalls, 1, 3),
                            r.stalls, dedupe(r.indices))

\* lines 338-340: indices of the tool_use events with a truthy tool_input
RECURSIVE toolUsesOf(_, _)
toolUsesOf(evts, i) ==
    IF i > Len(evts) THEN <<>>
    ELSE IF evts[i].type = "tool_use" /\ evts[i].tool_input # {}
    THEN <<i>> \o toolUsesOf(evts, i + 1)
    ELSE toolUsesOf(evts, i + 1)

\* line 357
isRetry(prev, curr, cfg) ==
    /\ prev.tool_name = curr.tool_name
    /\ ratioAtLeast(JSONstringify(CHOOSE x \in prev.tool_input : TRUE),
                    JSONstringify(CHOOSE x \in curr.tool_input : TRUE),
                    cfg.retry_similarity)

\* lines 349-369
RECURSIVE retryLoop(_, _, _, _, _, _, _, _)
retryLoop(evts, uses, i, cfg, currentStreak, streakIndices, maxStreak, bestIndices) ==
    IF i > Len(uses) THEN [maxStreak |-> maxStreak, bestIndices |-> bestIndices]
    ELSE IF isRetry(evts[uses[i - 1]], evts[uses[i]], cfg)
    THEN LET si == (IF currentStreak = 1 THEN <<uses[i - 1]>> ELSE streakIndices)
                   \o <<uses[i]>>
             cs == currentStreak + 1
         IN  IF cs > maxStreak
             THEN retryLoop(evts, uses, i + 1, cfg, cs, si, cs, si)
             ELSE retryLoop(evts, uses, i + 1, cfg, cs, si, maxStreak, bestIndices)
    ELSE retryLoop(evts, uses, i + 1, cfg, 1, <<>>, maxStreak, bestIndices)

\* lines 334-382
detectRetryLoop(evts, cfg) ==
    LET toolUses == toolUsesOf(evts, 1)
        min == cfg.retry_loop_min
    IN  IF Len(toolUses) < 2 THEN NullSignal
        ELSE LET r == retryLoop(evts, toolUses, 2, cfg, 1, <<>>, 0, <<>>)
             IN  IF r.maxStreak < min THEN NullSignal
                 ELSE FrictionSignal("retry_loop",
                                     severityFromCount(r.maxStreak, min, min * 2),
                                     r.maxStreak, r.bestIndices)

DefaultTaggerConfig == TaggerConfig(3, 1, 1, 3, DefaultSimilarity)

heuristicFrame ==
    <<hevents, tconfig, pipelineVars, ollamaVars, analyzeVars, trendVars, libVars>>

HeuristicIdle ==
    /\ hevents = <<>>
    /\ tconfig = DefaultTaggerConfig
    /\ hpc = "idle"
    /\ signal = NullSignal

\* detectToolFailureCascade over tool results and other events
MaxCascadeEvents == 7

CascadeEvents ==
    { ToolResultEvent(s, AtSecond(0)) : s \in {"true", "false", "undefined"} }
        \cup { PlainEvent("user_prompt", AtSecond(0)) }

CascadeMins == {0, 2, 3}

CascadeInit ==
    /\ hevents \in SeqsUpTo(CascadeEvents, MaxCascadeEvents)
    /\ tconfig \in { TaggerConfig(m, 1, 1, 3, DefaultSimilarity) : m \in CascadeMins }
    /\ hpc = "start"
    /\ signal = NullSignal

DetectToolFailureCascade ==
    /\ hpc = "start"
    /\ signal' = detectToolFailureCascade(hevents, tconfig)
    /\ hpc' = "done"
    /\ UNCHANGED heuristicFrame

\* detectAbandonSignal over events in chronological order
MaxAbandonEvents == 4

AbandonTimestamps == { AtSecond(0), AtSecond(1), AtSecond(2), InvalidTimestamp }

AbandonEvents ==
    { ToolResultEvent(s, ts) : s \in {"true", "false"}, ts \in AbandonTimestamps }
        \cup { PlainEvent(ty, ts) : ty \in {"session_end", "user_prompt"},
                                    ts \in AbandonTimestamps }

\* the events whose timestamp parses never go back in time
Chronological(evts) ==
    \A i, j \in 1..Len(evts) :
        (i < j /\ evts[i].timestamp.parsed # {} /\ evts[j].timestamp.parsed # {})
            => getTime(evts[i].timestamp) <= getTime(evts[j].timestamp)

AbandonInit ==
    /\ hevents \in { s \in SeqsUpTo(AbandonEvents, MaxAbandonEvents) : Chronological(s) }
    /\ tconfig = TaggerConfig(3, 1, 1, 3, DefaultSimilarity)
    /\ hpc = "start"
    /\ signal = NullSignal

DetectAbandonSignal ==
    /\ hpc = "start"
    /\ signal' = detectAbandonSignal(hevents, tconfig)
    /\ hpc' = "done"
    /\ UNCHANGED heuristicFrame

\* detectLongStall over timestamps
MaxStallEvents == 4

StallTimestamps == { AtSecond(0), AtSecond(1), AtSecond(2), AtSecond(3), InvalidTimestamp }

StallThresholds == {1, 2}

StallInit ==
    /\ hevents \in SeqsUpTo({ PlainEvent("user_prompt", ts) : ts \in StallTimestamps },
                            MaxStallEvents)
    /\ tconfig \in { TaggerConfig(3, 1, t, 3, DefaultSimilarity) : t \in StallThresholds }
    /\ hpc = "start"
    /\ signal = NullSignal

DetectLongStall ==
    /\ hpc = "start"
    /\ signal' = detectLongStall(hevents, tconfig)
    /\ hpc' = "done"
    /\ UNCHANGED heuristicFrame

\* detectRetryLoop over tool uses with and without input
MaxRetryEvents == 4

ToolInputs == { {}, {<<"a", "b">>}, {<<"a", "c">>} }

RetryEvents ==
    { ToolUseEvent(n, i) : n \in {"shell_exec", "file_read"}, i \in ToolInputs }
        \cup { PlainEvent("user_prompt", AtSecond(0)) }

RetryLoopMins == 0..3

RetrySimilarities == { Similarity(1, 2), Similarity(4, 5) }

RetryInit ==
    /\ hevents \in SeqsUpTo(RetryEvents, MaxRetryEvents)
    /\ tconfig \in { TaggerConfig(3, 1, 1, m, s) : m \in RetryLoopMins,
                                                   s \in RetrySimilarities }
    /\ hpc = "start"
    /\ signal = NullSignal

DetectRetryLoop ==
    /\ hpc = "start"
    /\ signal' = detectRetryLoop(hevents, tconfig)
    /\ hpc' = "done"
    /\ UNCHANGED heuristicFrame

-----------------------------------------------------------------------------
(* lib/tagger.ts: buildSignalRecord, tagging one session more than once *)

MaxTagEvents == 3

\* new Date() at two different moments
TagClocks == { NowMs, NowMs + MS_PER_MINUTE }

\* two different streams of randomUUID()
UuidSeeds == { "u1", "u2" }

TagEvent(id, type, timestamp, tool_name, tool_input, success, message, permission_granted) ==
    [id |-> id, type |-> type, timestamp |-> timestamp, tool_name |-> tool_name,
     tool_input |-> tool_input, success |-> success, message |-> message,
     permission_granted |-> permission_granted]

\* what the session log holds for one event, before an adapter gives it an
\* id and a timestamp
RawTagEvent(type, tool_name, tool_input, success, message, permission_granted) ==
    [type |-> type, tool_name |-> tool_name, tool_input |-> tool_input,
     success |-> success, message |-> message,
     permission_granted |-> permission_granted]

RawTagEvents ==
    { RawTagEvent("user_prompt", "none", {}, "undefined", <<"a", "b">>, "undefined"),
      RawTagEvent("user_prompt", "none", {}, "undefined", <<"a", "c">>, "undefined"),
      RawTagEvent("tool_use", "shell_exec", {<<"a", "b">>}, "undefined", <<>>, "undefined"),
      RawTagEvent("tool_result", "shell_exec", {}, "false", <<>>, "undefined"),
      RawTagEvent("tool_result", "shell_exec", {}, "true", <<>>, "undefined"),
      RawTagEvent("compaction", "none", {}, "undefined", <<>>, "undefined"),
      RawTagEvent("permission_result", "none", {}, "undefined", <<>>, "false"),
      RawTagEvent("session_end", "none", {}, "undefined", <<>>, "undefined") }

\* the seconds between two stored timestamps; {} when the log stores none
StoredGaps == { {}, {1}, {3} }

TagConfig ==
    [rephrase_threshold |-> 1, rephrase_similarity |-> Similarity(1, 2),
     tool_failure_cascade_min |-> 2, context_churn_threshold |-> 1,
     abandon_window_seconds |-> 3, stall_threshold_seconds |-> 2,
     retry_loop_min |-> 2, retry_similarity |-> DefaultSimilarity]

\* claude-code.ts line 164 and pi-coding-agent.ts line 53: the timestamp the log
\* stores; gemini-cli.ts lines 242, 260: without a stored timestamp the
\* clock read at parse time, offset by the position in the history
eventTimestamp_FirstAtClock(stored, now, k) ==
    IF stored = {} \/ k = 1 THEN toISOString(now + k)
    ELSE AtSecond(k * (CHOOSE g \in stored : TRUE))

eventTimestamp(stored, now, k) ==
    IF stored = {} THEN toISOString(now + k)
    ELSE AtSecond(k * (CHOOSE g \in stored : TRUE))

\* claude-code.ts lines 162-164, gemini-cli.ts lines 86-88: every event gets
\* a fresh randomUUID() and its timestamp
normalizeSession(session, now, uuid) ==
    [k \in 1..Len(session.events) |->
        LET raw == session.events[k]
        IN  TagEvent(<<uuid, k>>, raw.type, eventTimestamp(session.stored, now, k),
                     raw.tool_name, raw.tool_input, raw.success, raw.message,
                     raw.permission_granted)]

\* heuristics.ts lines 107-109: the user prompts that carry a message
RECURSIVE promptsOf(_, _)
promptsOf(evts, i) ==
    IF i > Len(evts) THEN <<>>
    ELSE IF evts[i].type = "user_prompt" /\ evts[i].message # <<>>
    THEN <<i>> \o promptsOf(evts, i + 1)
    ELSE promptsOf(evts, i + 1)

\* heuristics.ts lines 117-128
RECURSIVE rephraseLoop(_, _, _, _, _)
rephraseLoop(evts, prompts, i, cfg, acc) ==
    IF i > Len(prompts) THEN acc
    ELSE IF ratioAtLeast(evts[prompts[i - 1]].message, evts[prompts[i]].message,
                         cfg.rephrase_similarity)
    THEN rephraseLoop(evts, prompts, i + 1, cfg,
                      [count |-> acc.count + 1,
                       indices |-> (IF acc.indices = <<>> THEN <<prompts[i - 1]>>
                                    ELSE acc.indices) \o <<prompts[i]>>])
    ELSE rephraseLoop(evts, prompts, i + 1, cfg, acc)

\* heuristics.ts lines 102-141
detectRephraseStorm(evts, cfg) ==
    LET prompts == promptsOf(evts, 1)
    IN  IF Len(prompts) < 2 THEN NullSignal
        ELSE LET r == rephraseLoop(evts, prompts, 2, cfg,
                                   [count |-> 0, indices |-> <<>>])
             IN  IF r.count < cfg.rephrase_threshold THEN NullSignal
                 ELSE FrictionSignal("rephrase_storm",
                          severityFromCount(r.count, cfg.rephrase_threshold,
                                            cfg.rephrase_threshold * 2),
                          r.count, r.indices)

\* the positions of the events that satisfy Test, in order
indicesWhere(evts, Test(_)) ==
    SelectSeq([i \in 1..Len(evts) |-> i], LAMBDA i : Test(evts[i]))

\* heuristics.ts lines 191-210
detectContextChurn(evts, cfg) ==
    LET compactions == indicesWhere(evts, LAMBDA e : e.type = "compaction")
    IN  IF Len(compactions) < cfg.context_churn_threshold THEN NullSignal
        ELSE FrictionSignal("context_churn",
                 severityFromCount(Len(compactions), cfg.context_churn_threshold,
                                   cfg.context_churn_threshold * 2),
                 Len(compactions), compactions)

\* heuristics.ts lines 215-244
detectPermissionFriction(evts, cfg) ==
    LET denials == indicesWhere(evts,
                       LAMBDA e : e.type = "permission_result"
                                  /\ e.permission_granted = "false")
    IN  IF Len(denials) = 0 THEN NullSignal
        ELSE FrictionSignal("permission_friction",
                            severityFromCount(Len(denials), 1, 3),
                            Len(denials), denials)

\* lines 100-116: the detectors in their fixed order, nulls dropped
collectSignals(evts, cfg) ==
    SelectSeq(<< detectRephraseStorm(evts, cfg),
                 detectToolFailureCascade(evts, cfg),
                 detectContextChurn(evts, cfg),
                 detectPermissionFriction(evts, cfg),
                 detectAbandonSignal(evts, cfg),
                 detectLongStall(evts, cfg),
                 detectRetryLoop(evts, cfg) >>,
              LAMBDA s : s # NullSignal)

\* heuristics.ts lines 438-458
classifyOutcome(evts, cfg) ==
    LET toolResults == indicesWhere(evts, LAMBDA e : e.type = "tool_result")
        lastResults == SubSeq(toolResults,
                              IF Len(toolResults) > 3 THEN Len(toolResults) - 2 ELSE 1,
                              Len(toolResults))
        allFailed == /\ Len(lastResults) > 0
                     /\ \A k \in 1..Len(lastResults) :
                            evts[lastResults[k]].success = "false"
    IN  IF lastSessionEnd(evts) = 0 THEN "abandoned"
        ELSE IF detectAbandonSignal(evts, cfg) # NullSignal THEN "abandoned"
        ELSE IF allFailed THEN "errored"
        ELSE "completed"

Min(S) == CHOOSE x \in S : \A y \in S : x <= y

\* heuristics.ts lines 461-482.  tool_failure_rate and session_duration_min
\* are kept as numerator and denominator; tools_used, a sorted list without
\* repeats, as the set of its elements; the tool inputs here hold a command
\* and no file path, so inferLanguages finds no language.
extractFacets(evts, cfg) ==
    LET toolResults == indicesWhere(evts, LAMBDA e : e.type = "tool_result")
        failedResults == indicesWhere(evts,
                             LAMBDA e : e.type = "tool_result" /\ e.success = "false")
        timestamps == { getTime(evts[k].timestamp) :
                          k \in { j \in 1..Len(evts) : evts[j].timestamp.parsed # {} } }
        parsedCount == Cardinality({ j \in 1..Len(evts) : evts[j].timestamp.parsed # {} })
        durationMs == IF parsedCount >= 2 THEN Max(timestamps) - Min(timestamps) ELSE 0
    IN  [languages |-> {},
         tools_used |-> { evts[k].tool_name : k \in 1..Len(evts) } \ {"none"},
         tool_failure_rate |-> IF Len(toolResults) > 0
                               THEN <<Len(failedResults), Len(toolResults)>>
                               ELSE <<0, 1>>,
         session_duration_min |-> <<durationMs, MS_PER_MINUTE>>,
         total_turns |-> Len(indicesWhere(evts, LAMBDA e : e.type = "user_prompt")),
         outcome |-> classifyOutcome(evts, cfg)]

\* lines 86-95: the cwd is not under a pai path
resolveScope(cwd) == <<"project:", cwd>>

\* lines 120-138
buildSignalRecord(sid, evts, cfg, cwd, now) ==
    [session_id |-> sid, timestamp |-> toISOString(now), project |-> cwd,
     scope |-> resolveScope(cwd), signals |-> collectSignals(evts, cfg),
     facets |-> extractFacets(evts, cfg)]

TagInit ==
    /\ tsession \in [events : SeqsUpTo(RawTagEvents, MaxTagEvents) \ {<<>>},
                     stored : StoredGaps]
    /\ tagRuns = <<>>

\* signal-tagger.ts lines 31-38: one run of the tagger over the session; the
\* clock and the UUID stream are whatever they are at that run
TagSession ==
    /\ Len(tagRuns) < 2
    /\ \E now \in TagClocks, uuid \in UuidSeeds :
          LET evts == normalizeSession(tsession, now, uuid)
          IN  tagRuns' = Append(tagRuns,
                  [events |-> evts,
                   record |-> buildSignalRecord("s1", evts, TagConfig, "/work", now)])
    /\ UNCHANGED <<tsession, appendVars, loadVars, pipelineVars, analyzerVars>>

TagIdle ==
    /\ tsession = [events |-> <<>>, stored |-> {}]
    /\ tagRuns = <<>>

-----------------------------------------------------------------------------
(* lib/tagger.ts: writeSignalRecord by taggers of different sessions *)

Taggers == {"t1", "t2"}

NL == "\n"

\* signal types a record may list
LineSignals == { <<>>, <<"long_stall">>, <<"long_stall", "retry_loop">> }

\* line 158: JSON.stringify(record) + "\n", token by token
recordLine(record) ==
    <<"{", record.session_id>> \o record.signals \o <<"}", NL>>

\* a record written to the day file by an earlier tagger
EarlierLine == recordLine([session_id |-> "s0", signals |-> <<>>])

\* line 159, appendFile: how much of what is left of the line one write()
\* hands to the file.  The line is one string and goes out in one write.
writeSize_OneToken(remaining) == 1

writeSize(remaining) == remaining

AppendInit ==
    /\ dirExists \in BOOLEAN
    /\ fileContent \in IF dirExists THEN {"absent", <<>>, EarlierLine} ELSE {"absent"}
    /\ \E s1 \in LineSignals, s2 \in LineSignals :
          writers = [p \in Taggers |->
                        [line |-> recordLine([session_id |-> IF p = "t1" THEN "s1" ELSE "s2",
                                              signals |-> IF p = "t1" THEN s1 ELSE s2]),
                         pc |-> "mkdir", written |-> 0]]

appendFrame == <<tagVars, loadVars, pipelineVars, analyzerVars>>

\* line 156: mkdir(dir, { recursive: true }) succeeds whether or not the
\* directory is there
WriterMkdir(p) ==
    /\ writers[p].pc = "mkdir"
    /\ dirExists' = TRUE
    /\ writers' = [writers EXCEPT ![p].pc = "open"]
    /\ UNCHANGED <<fileContent, appendFrame>>

\* line 159, appendFile: the file is opened in append mode and created when
\* it is not there
WriterOpen(p) ==
    /\ writers[p].pc = "open"
    /\ fileContent' = IF fileContent = "absent" THEN <<>> ELSE fileContent
    /\ writers' = [writers EXCEPT ![p].pc = "write"]
    /\ UNCHANGED <<dirExists, appendFrame>>

\* line 159, appendFile: one write() in append mode puts its bytes at the
\* end of the file as it is at that moment; after the last one the
\* descriptor is closed and the promise resolves
WriterWrite(p) ==
    /\ writers[p].pc = "write"
    /\ LET w == writers[p]
           n == writeSize(Len(w.line) - w.written)
       IN  /\ fileContent' = fileContent \o SubSeq(w.line, w.written + 1, w.written + n)
           /\ writers' = [writers EXCEPT
                             ![p].written = w.written + n,
                             ![p].pc = IF w.written + n = Len(w.line)
                                       THEN "done" ELSE "write"]
    /\ UNCHANGED <<dirExists, appendFrame>>

AppendNext ==
    \E p \in Taggers :
        \/ WriterMkdir(p)
        \/ WriterOpen(p)
        \/ WriterWrite(p)

AppendIdle ==
    /\ dirExists = FALSE
    /\ fileContent = "absent"
    /\ writers = [p \in Taggers |-> [line |-> <<>>, pc |-> "idle", written |-> 0]]

-----------------------------------------------------------------------------
(* lib/config.ts: loadConfig and validateConfig *)

\* how many keys of the bundled configuration a file may have changed
MaxChangedKeys == 1

\* JSON values by typeof, numbers in tenths
Num(tenths) == [t |-> "number", v |-> tenths]

Str(s) == [t |-> "string", v |-> s]

Bool(b) == [t |-> "boolean", v |-> b]

Obj == [t |-> "object", v |-> "{}"]

\* an array; v tells whether every element is a string
Arr(allStrings) == [t |-> "array", v |-> allStrings]

Null == [t |-> "null", v |-> "null"]

\* the key is not in the file
Missing == [t |-> "undefined", v |-> "undefined"]

\* lines 10-11
SUPPORTED_VERSIONS == {"1.0.0"}

VALID_SEVERITIES == {"high", "medium", "low"}

\* lines 17-76: the assert helpers, by the kind of check
assertPositiveNumber_AllowsZero(value) == value.t = "number" /\ value.v >= 0

assertPositiveNumber(value) == value.t = "number" /\ value.v > 0

assertNonNegativeNumber(value) == value.t = "number" /\ value.v >= 0

assertExclusiveUnitInterval(value) == value.t = "number" /\ value.v > 0 /\ value.v < 10

passes(value, kind) ==
    CASE kind = "object" -> value.t = "object"
      [] kind = "string" -> value.t = "string"
      [] kind = "version" -> value.t = "string" /\ value.v \in SUPPORTED_VERSIONS
      [] kind = "boolean" -> value.t = "boolean"
      [] kind = "severity" -> value.t = "string" /\ value.v \in VALID_SEVERITIES
      [] kind = "stringArray" -> value.t = "array" /\ value.v
      [] kind = "positive" -> assertPositiveNumber(value)
      [] kind = "nonNegative" -> assertNonNegativeNumber(value)
      [] kind = "unitInterval" -> assertExclusiveUnitInterval(value)

\* lines 85-185: every check of validateConfig in the order it is made;
\* `entry` names the harness entry the check belongs to ("" for none)
Check(path, kind, entry) == [path |-> path, kind |-> kind, entry |-> entry]

CHECKS ==
    << Check("", "object", ""),
       Check("version", "string", ""),
       Check("version", "version", ""),
       Check("tagger", "object", ""),
       Check("tagger.rephrase_threshold", "nonNegative", ""),
       Check("tagger.rephrase_similarity", "unitInterval", ""),
       Check("tagger.tool_failure_cascade_min", "nonNegative", ""),
       Check("tagger.context_churn_threshold", "nonNegative", ""),
       Check("tagger.abandon_window_seconds", "positive", ""),
       Check("tagger.stall_threshold_seconds", "positive", ""),
       Check("tagger.retry_loop_min", "nonNegative", ""),
       Check("tagger.retry_similarity", "unitInterval", ""),
       Check("analyzer", "object", ""),
       Check("analyzer.model", "string", ""),
       Check("analyzer.ollama_url", "string", ""),
       Check("analyzer.lookback_days", "positive", ""),
       Check("analyzer.min_session_signals", "nonNegative", ""),
       Check("actions", "object", ""),
       Check("actions.beads", "object", ""),
       Check("actions.beads.enabled", "boolean", ""),
       Check("actions.beads.min_severity", "severity", ""),
       Check("actions.beads.min_frequency", "nonNegative", ""),
       Check("actions.beads.title_prefix", "string", ""),
       Check("actions.digest", "object", ""),
       Check("actions.digest.enabled", "boolean", ""),
       Check("actions.digest.output_dir", "string", ""),
       Check("actions.autofix", "object", ""),
       Check("actions.autofix.enabled", "boolean", ""),
       Check("actions.autofix.min_severity", "severity", ""),
       Check("actions.autofix.min_frequency", "nonNegative", ""),
       Check("actions.autofix.branch_prefix", "string", ""),
       Check("actions.autofix.branch_ttl_days", "positive", ""),
       Check("actions.autofix.allowed_tools", "stringArray", ""),
       Check("harnesses", "object", ""),
       Check("harnesses.claude_code", "object", "harnesses.claude_code"),
       Check("harnesses.claude_code.enabled", "boolean", "harnesses.claude_code"),
       Check("harnesses.claude_code.events_dir", "string", "harnesses.claude_code"),
       Check("harnesses.gemini_cli", "object", "harnesses.gemini_cli"),
       Check("harnesses.gemini_cli.enabled", "boolean", "harnesses.gemini_cli"),
       Check("harnesses.gemini_cli.events_dir", "string", "harnesses.gemini_cli"),
       Check("scope_rules", "object", ""),
       Check("scope_rules.pai_paths", "stringArray", ""),
       Check("scope_rules.ignore_paths", "stringArray", "") >>

ConfigPaths == { CHECKS[k].path : k \in 1..Len(CHECKS) }

\* a configuration that passes every check (tests/config.test.ts lines
\* 42-59), numbers in tenths
BundledConfig ==
    [p \in ConfigPaths |->
        CASE p \in {"", "tagger", "analyzer", "actions", "actions.beads",
                    "actions.digest", "actions.autofix", "harnesses",
                    "harnesses.claude_code", "harnesses.gemini_cli",
                    "scope_rules"} -> Obj
          [] p = "version" -> Str("1.0.0")
          [] p \in {"tagger.rephrase_similarity", "tagger.retry_similarity"} -> Num(6)
          [] p \in {"actions.beads.min_severity", "actions.autofix.min_severity"} -> Str("medium")
          [] p \in {"actions.beads.enabled", "actions.digest.enabled",
                    "actions.autofix.enabled", "harnesses.claude_code.enabled",
                    "harnesses.gemini_cli.enabled"} -> Bool(TRUE)
          [] p \in {"analyzer.model", "analyzer.ollama_url", "actions.beads.title_prefix",
                    "actions.digest.output_dir", "actions.autofix.branch_prefix",
                    "harnesses.claude_code.events_dir",
                    "harnesses.gemini_cli.events_dir"} -> Str("text")
          [] p \in {"actions.autofix.allowed_tools", "scope_rules.pai_paths",
                    "scope_rules.ignore_paths"} -> Arr(TRUE)
          [] OTHER -> Num(30)]

\* what a file may hold under a key
ConfigValues ==
    { Missing, Null, Obj, Arr(TRUE), Arr(FALSE), Bool(FALSE),
      Str("text"), Str("1.0.0"), Str("2.0.0"), Str("high"),
      Num(-10), Num(0), Num(5), Num(10), Num(30) }

\* the bundled configuration with up to n keys changed
RECURSIVE ChangedConfigs(_)
ChangedConfigs(n) ==
    IF n = 0 THEN { BundledConfig }
    ELSE ChangedConfigs(n - 1) \cup
         { [c EXCEPT ![p] = v] : c \in ChangedConfigs(n - 1), p \in ConfigPaths,
                                 v \in ConfigValues }

\* a check is made unless it belongs to a harness entry the file lacks
\* (line 161 iterates over the keys that are there)
isMade(raw, check) == check.entry = "" \/ raw[check.entry] # Missing

\* lines 174-189: the first check that fails throws; otherwise the parsed
\* object itself is returned
validateConfig(raw) ==
    LET failing == { k \in 1..Len(CHECKS) :
                       isMade(raw, CHECKS[k]) /\ ~passes(raw[CHECKS[k].path], CHECKS[k].kind) }
    IN  IF failing = {} THEN Resolved(raw)
        ELSE Rejected([name |-> "Error", path |-> CHECKS[Min(failing)].path,
                       kind |-> CHECKS[Min(failing)].kind])

LoadInit ==
    /\ rawFile \in { [kind |-> "unreadable"], [kind |-> "malformed"] }
                   \cup { [kind |-> "json", value |-> c] : c \in ChangedConfigs(MaxChangedKeys) }
    /\ loadResult = Pending

loadFrame == <<rawFile, tagVars, appendVars, pipelineVars, analyzerVars>>

\* line 197: readFile rejects
LoadConfigUnreadable ==
    /\ loadResult = Pending
    /\ rawFile.kind = "unreadable"
    /\ loadResult' = Rejected([name |-> "Error", path |-> "", kind |-> "readFile"])
    /\ UNCHANGED loadFrame

\* line 198: JSON.parse throws
LoadConfigMalformed ==
    /\ loadResult = Pending
    /\ rawFile.kind = "malformed"
    /\ loadResult' = Rejected([name |-> "SyntaxError", path |-> "", kind |-> "JSON.parse"])
    /\ UNCHANGED loadFrame

\* lines 195-200
LoadConfigValidate ==
    /\ loadResult = Pending
    /\ rawFile.kind = "json"
    /\ loadResult' = validateConfig(rawFile.value)
    /\ UNCHANGED loadFrame

LoadNext ==
    \/ LoadConfigUnreadable
    \/ LoadConfigMalformed
    \/ LoadConfigValidate

LoadIdle ==
    /\ rawFile = [kind |-> "unreadable"]
    /\ loadResult = Pending

LibIdle == TagIdle /\ AppendIdle /\ LoadIdle

CoreIdle ==
    /\ AutofixIdle /\ TaggerIdle /\ CleanupIdle /\ BeadsIdle /\ AdapterIdle
    /\ OllamaIdle /\ AnalyzeIdle /\ TrendIdle /\ HeuristicIdle

AnalyzerIdle == OllamaIdle /\ AnalyzeIdle /\ TrendIdle /\ HeuristicIdle /\ LibIdle

-----------------------------------------------------------------------------
(* Specifications *)

OthersIdle == CleanupIdle /\ BeadsIdle /\ AdapterIdle /\ AnalyzerIdle

Init == AutofixInit /\ TaggerIdle /\ OthersIdle

Next == AutofixNext

\* One run of executeAutofixAction
Spec == Init /\ [][Next]_vars

\* One run of the signal-tagger process
TaggerStart == TaggerInit /\ AutofixIdle /\ OthersIdle

TaggerSpec == TaggerStart /\ [][TaggerNext]_vars

\* One run of cleanupExpiredBranches
CleanupStart == CleanupInit /\ TaggerIdle /\ BeadsIdle /\ AdapterIdle /\ AnalyzerIdle

CleanupSpec == CleanupStart /\ [][CleanupNext]_vars

\* One run of executeBeadsAction
BeadsStart ==
    BeadsInit /\ AutofixIdle /\ TaggerIdle /\ CleanupIdle /\ AdapterIdle /\ AnalyzerIdle

BeadsSpec == BeadsStart /\ [][BeadsNext]_vars

NoActionRunning ==
    AutofixIdle /\ TaggerIdle /\ CleanupIdle /\ BeadsIdle /\ AnalyzerIdle

\* One call of ClaudeCodeAdapter.getSessionEvents
ClaudeStart == ClaudeInit /\ NoActionRunning

ClaudeSpec == ClaudeStart /\ [][ClaudeNext]_vars

\* One call of GeminiCliAdapter.getSessionEvents
GeminiStart == GeminiInit /\ NoActionRunning

GeminiSpec == GeminiStart /\ [][GeminiNext]_vars

\* One call of PiCodingAgentAdapter.getSessionEvents
PiStart == PiInit /\ NoActionRunning

PiSpec == PiStart /\ [][PiNext]_vars

LinearizeStart == LinearizeInit /\ NoActionRunning

LinearizeSpec == LinearizeStart /\ [][PiNext]_vars

PipelineIdle ==
    AutofixIdle /\ TaggerIdle /\ CleanupIdle /\ BeadsIdle /\ AdapterIdle /\ LibIdle

\* One call of generate or generateJSON on the Ollama client
OllamaStart == OllamaInit /\ PipelineIdle /\ AnalyzeIdle /\ TrendIdle /\ HeuristicIdle

OllamaSpec == OllamaStart /\ [][OllamaNext]_vars

\* One call of analyzeScope
AnalyzeStart == AnalyzeInit /\ PipelineIdle /\ OllamaIdle /\ TrendIdle /\ HeuristicIdle

AnalyzeSpec == AnalyzeStart /\ [][AnalyzeNext]_vars

\* One call of classifyTrend
TrendStart == TrendInit /\ PipelineIdle /\ OllamaIdle /\ AnalyzeIdle /\ HeuristicIdle

TrendSpec == TrendStart /\ [][TrendNext]_vars

DetectorsIdle == PipelineIdle /\ OllamaIdle /\ AnalyzeIdle /\ TrendIdle

\* One call of each friction detector
CascadeStart == CascadeInit /\ DetectorsIdle

CascadeSpec == CascadeStart /\ [][DetectToolFailureCascade]_vars

AbandonStart == AbandonInit /\ DetectorsIdle

AbandonSpec == AbandonStart /\ [][DetectAbandonSignal]_vars

StallStart == StallInit /\ DetectorsIdle

StallSpec == StallStart /\ [][DetectLongStall]_vars

RetryStart == RetryInit /\ DetectorsIdle

RetrySpec == RetryStart /\ [][DetectRetryLoop]_vars

\* Two runs of the tagger over one session
TagStart == TagInit /\ AppendIdle /\ LoadIdle /\ CoreIdle

TagSpec == TagStart /\ [][TagSession]_vars

\* Two taggers appending their records to one day file
AppendStart == AppendInit /\ TagIdle /\ LoadIdle /\ CoreIdle

AppendSpec == AppendStart /\ [][AppendNext]_vars

\* One call of loadConfig
LoadStart == LoadInit /\ TagIdle /\ AppendIdle /\ CoreIdle

LoadSpec == LoadStart /\ [][LoadNext]_vars

-----------------------------------------------------------------------------
(* Reading the call log and the results *)

BranchOf(i) == buildBranchName(patterns[i], config.branch_prefix)

CallsOf(i) == { k \in 1..Len(log) : log[k].pat = i }

Created(i) ==
    \E k \in CallsOf(i) : log[k].op = "createAndCheckoutBranch" /\ log[k].ok

AgentInvoked(i) == \E k \in CallsOf(i) : log[k].op = "agent.run"

AgentSucceeded(i) == \E k \in CallsOf(i) : log[k].op = "agent.run" /\ log[k].ok

AgentFailed(i) == \E k \in CallsOf(i) : log[k].op = "agent.run" /\ ~log[k].ok

\* the fix branch really held commits the original branch lacks when the
\* agent failed (val is what git rev-list counted, whether or not the check
\* itself could be run)
HadCommits(i) == \E k \in CallsOf(i) : log[k].op = "hasNewCommits" /\ log[k].val

\* the commit check ran and answered "no commits"
ReportedNoCommits(i) ==
    \E k \in CallsOf(i) : log[k].op = "hasNewCommits" /\ log[k].ok /\ ~log[k].val

CheckedOutOriginal(i) ==
    \E k \in CallsOf(i) :
        log[k].op = "checkoutBranch" /\ log[k].branch = originalBranch /\ log[k].ok

DeleteCalled(i) ==
    \E k \in CallsOf(i) : log[k].op = "deleteBranch" /\ log[k].branch = BranchOf(i)

DeleteSucceeded(i) ==
    \E k \in CallsOf(i) :
        log[k].op = "deleteBranch" /\ log[k].branch = BranchOf(i) /\ log[k].ok

ResultsOf(i) == { k \in 1..Len(results) : results[k].pattern_id = patterns[i].id }

Returned == pc = "done" /\ config.enabled

-----------------------------------------------------------------------------
(* Claims *)

\* C1: when the agent fails on a pattern and its fix branch holds commits the
\* original branch lacks, deleteBranch is never called on the fix branch, the
\* branch still exists, and the pattern's one result is 'skipped', names the
\* branch and says it was retained.
C1_PartialWorkRetained ==
    \A i \in 1..Len(patterns) :
        (AgentFailed(i) /\ HadCommits(i)) =>
            /\ ~DeleteCalled(i)
            /\ BranchOf(i) \in branches
            /\ \E k \in ResultsOf(i) :
                  /\ results[k].action = "skipped"
                  /\ results[k].branch = BranchOf(i)
                  /\ results[k].reason = "Agent failed; branch retained (has partial commits)"
            /\ Cardinality(ResultsOf(i)) = 1

C1_Witness ==
    /\ pc = "done"
    /\ \E i \in 1..Len(patterns) :
          AgentFailed(i) /\ HadCommits(i) /\ CheckedOutOriginal(i)

\* C2: a pattern with auto_fixable = false never gets a fix branch created and
\* never has the agent invoked, whatever its severity and frequency; in every
\* run that returns with auto-fix enabled its result is 'skipped'.
C2_NotAutoFixableNeverAttempted ==
    \A i \in 1..Len(patterns) :
        ~patterns[i].auto_fixable =>
            /\ CallsOf(i) = {}
            /\ \A k \in 1..Len(log) : log[k].branch # BranchOf(i)
            /\ Returned =>
                  /\ ResultsOf(i) # {}
                  /\ \A k \in ResultsOf(i) : results[k].action = "skipped"

C2_Witness ==
    /\ pc = "done"
    /\ log # <<>>
    /\ \E i \in 1..Len(patterns) :
          /\ ~patterns[i].auto_fixable
          /\ patterns[i].severity = "high"
          /\ patterns[i].frequency >= config.min_frequency
          /\ BranchOf(i) \notin branches
          /\ \E k \in ResultsOf(i) : results[k].reason = "Below threshold"

\* C3: when the working tree is not clean, no GitOps or agent call that creates,
\* checks out or deletes a branch or runs the agent is made, the repository is
\* left as it was, and a run that returns with auto-fix enabled gives every
\* input pattern, in order, a 'skipped' result whose reason is the dirty tree.
C3_DirtyTreeSkipsAll ==
    ~clean =>
        /\ log = <<>>
        /\ current = MainBranch
        /\ ahead = {}
        /\ Returned =>
              /\ Len(results) = Len(patterns)
              /\ \A i \in 1..Len(patterns) :
                    /\ results[i].pattern_id = patterns[i].id
                    /\ results[i].action = "skipped"
                    /\ results[i].reason = "Working tree is dirty"

C3_Witness ==
    /\ ~clean
    /\ Returned
    /\ Len(patterns) = MaxPatterns
    /\ \E i \in 1..Len(patterns) : meetsAutoFixThreshold(patterns[i], config)

\* C4: whatever arrives on stdin and whichever step of main() fails, the
\* process ends with exit code 0.
C4_TaggerNeverPropagates ==
    /\ exitCode \in {-1, 0}
    /\ tpc = "exited" => exitCode = 0

C4_Witness ==
    /\ tpc = "exited"
    /\ terr = "write failed"

\* C5 (as claimed): the number of patterns for which the agent was invoked never
\* exceeds maxPerRun, failed invocations included.
C5_AttemptsWithinCap ==
    Cardinality({ i \in 1..Len(patterns) : AgentInvoked(i) }) <= maxPerRun

\* C6 (as claimed): after an agent failure on a fix branch that the commit
\* check found to hold no commits, the fix branch is gone.
C6_EmptyBranchAlwaysDeleted ==
    \A i \in 1..Len(patterns) :
        (AgentFailed(i) /\ ReportedNoCommits(i)) => BranchOf(i) \notin branches

\* C6 (amended): after an agent failure, when the commit check answers "no
\* commits" and the original branch is checked out again, deleteBranch is called
\* on the fix branch and the result reports the deletion; the branch is gone
\* exactly when that call succeeds.  When the checkout fails, or the commit
\* check cannot be run, deleteBranch is not called and the branch stays.
C6_RollbackAfterReturn ==
    \A i \in 1..Len(patterns) :
        AgentFailed(i) =>
            /\ (ReportedNoCommits(i) /\ CheckedOutOriginal(i)) =>
                  /\ DeleteCalled(i)
                  /\ DeleteSucceeded(i) <=> BranchOf(i) \notin branches
                  /\ \E k \in ResultsOf(i) :
                        results[k].reason = "Agent failed; branch deleted (no commits)"
            /\ ~(ReportedNoCommits(i) /\ CheckedOutOriginal(i)) =>
                  /\ ~DeleteCalled(i)
                  /\ BranchOf(i) \in branches

C6_Witness ==
    /\ pc = "done"
    /\ \E i \in 1..Len(patterns) :
          /\ AgentFailed(i) /\ ReportedNoCommits(i) /\ CheckedOutOriginal(i)
          /\ DeleteSucceeded(i)
          /\ BranchOf(i) \notin branches

\* The terminal states of one attempt
Fixed(i) ==
    /\ AgentSucceeded(i)
    /\ BranchOf(i) \in branches
    /\ \E k \in ResultsOf(i) :
          results[k].action = "fixed" /\ results[k].branch = BranchOf(i)

\* "has commits" as the code sees it: the commit check did not answer "none"
RetainedWithCommits(i) ==
    /\ AgentFailed(i) /\ ~ReportedNoCommits(i)
    /\ BranchOf(i) \in branches
    /\ \E k \in ResultsOf(i) :
          results[k].action = "skipped" /\ results[k].branch = BranchOf(i)

RolledBack(i) ==
    /\ AgentFailed(i) /\ ReportedNoCommits(i)
    /\ BranchOf(i) \notin branches

\* C7 (as claimed): every attempt whose branch was created ends fixed, retained
\* with commits, or rolled back.
C7_ThreeTerminalStates ==
    \A i \in 1..Len(patterns) :
        Created(i) =>
            \/ Fixed(i) /\ ~RetainedWithCommits(i) /\ ~RolledBack(i)
            \/ ~Fixed(i) /\ RetainedWithCommits(i) /\ ~RolledBack(i)
            \/ ~Fixed(i) /\ ~RetainedWithCommits(i) /\ RolledBack(i)

\* branch kept and named in a 'skipped' result of its pattern
Retained(i) ==
    /\ AgentFailed(i)
    /\ ~DeleteCalled(i)
    /\ BranchOf(i) \in branches
    /\ \E k \in ResultsOf(i) :
          results[k].action = "skipped" /\ results[k].branch = BranchOf(i)

RollbackAttempted(i) ==
    /\ AgentFailed(i)
    /\ ReportedNoCommits(i) /\ CheckedOutOriginal(i)
    /\ DeleteCalled(i)

\* C7 (amended): every attempt whose branch was created ends in exactly one of:
\* fixed (agent succeeded, branch kept and named in a 'fixed' result), retained
\* (agent failed; the branch has commits, or the commit check failed, or the
\* checkout of the original branch failed; branch kept and named in the
\* pattern's 'skipped' result), or rollback attempted (agent failed, no commits,
\* original branch checked out, deleteBranch called on the fix branch).  So no
\* created branch ends neither named in a result nor handed to deleteBranch.
C7_TerminalStates ==
    \A i \in 1..Len(patterns) :
        Created(i) =>
            \/ Fixed(i) /\ ~Retained(i) /\ ~RollbackAttempted(i)
            \/ ~Fixed(i) /\ Retained(i) /\ ~RollbackAttempted(i)
            \/ ~Fixed(i) /\ ~Retained(i) /\ RollbackAttempted(i)

C7_Witness ==
    /\ pc = "done"
    /\ \E i \in 1..Len(patterns) :
          /\ Created(i) /\ AgentFailed(i) /\ ~HadCommits(i)
          /\ ~CheckedOutOriginal(i)
          /\ Retained(i)

\* C8: for every pattern whose fix branch was created, a checkout of the
\* original branch is attempted after agent.run ended, whether the agent
\* succeeded or failed, and before any call made for a later pattern.
C8_ReturnToOriginalAttempted ==
    \A i \in 1..Len(patterns) :
        Created(i) =>
            \E r \in CallsOf(i), c \in CallsOf(i) :
                /\ log[r].op = "agent.run"
                /\ log[c].op = "checkoutBranch"
                /\ log[c].branch = originalBranch
                /\ originalBranch = MainBranch
                /\ r < c
                /\ \A k \in 1..Len(log) : log[k].pat > i => c < k

C8_Witness ==
    /\ pc = "done"
    /\ \E i \in 1..Len(patterns), j \in 1..Len(patterns) :
          /\ i < j
          /\ Created(i) /\ AgentFailed(i)
          /\ Created(j) /\ AgentSucceeded(j)

\* C9 (as claimed): a run that returns with auto-fix enabled returns exactly one
\* result per input pattern, in input order.
C9_OneResultPerPattern ==
    Returned =>
        /\ Len(results) = Len(patterns)
        /\ \A i \in 1..Len(patterns) : results[i].pattern_id = patterns[i].id

\* C10: every deleteBranch call of the rollback directly follows a successful
\* checkout of the original branch made for the same pattern, and is for a
\* branch other than the original; when the checkout after an agent failure
\* fails, deleteBranch is not called for that pattern.
C10_DeleteOnlyAfterReturn ==
    /\ \A k \in 1..Len(log) :
          log[k].op = "deleteBranch" =>
              /\ k > 1
              /\ log[k - 1].op = "checkoutBranch"
              /\ log[k - 1].ok
              /\ log[k - 1].branch = originalBranch
              /\ log[k - 1].pat = log[k].pat
              /\ log[k].branch # originalBranch
    /\ \A i \in 1..Len(patterns) :
          (AgentFailed(i) /\ ~CheckedOutOriginal(i)) =>
              ~DeleteCalled(i) /\ BranchOf(i) \in branches

C10_Witness ==
    /\ pc = "done"
    /\ \E i \in 1..Len(patterns) :
          /\ AgentFailed(i) /\ ReportedNoCommits(i)
          /\ ~CheckedOutOriginal(i)
          /\ current = BranchOf(i)


-----------------------------------------------------------------------------
(* Reading the results of cleanupExpiredBranches *)

\* positions of the listed branches the loop has finished with
Cleaned == 1..Len(cleanupResults)

AgeOf(k) == branchAge(lastCommit[listed[k]], NowEpoch)

Unparseable(k) == lastCommit[listed[k]].ok /\ isNaN(lastCommit[listed[k]].epoch)

DeleteCallsOn(branch) ==
    { j \in 1..Len(log) : log[j].op = "deleteBranch" /\ log[j].branch = branch }

\* the branch at position k was handed to git.deleteBranch, and the result
\* says deleted exactly when git performed the deletion
DeleteIssued(k) ==
    /\ \E j \in DeleteCallsOn(listed[k]) : log[j].pat = k
    /\ \A j \in DeleteCallsOn(listed[k]) :
           /\ cleanupResults[k].deleted = log[j].ok
           /\ log[j].ok => listed[k] \notin branches

-----------------------------------------------------------------------------
\* C11: cleanupExpiredBranches never deletes the branch that is checked out,
\* whatever its age (an infinite age included): no deleteBranch call is ever
\* made on it, it stays in the repository, and its result says deleted: false.
C11_CurrentBranchNeverDeleted ==
    cpc \in {"loop", "done"} =>
        /\ currentBranch = current
        /\ currentBranch \in branches
        /\ DeleteCallsOn(currentBranch) = {}
        /\ \A k \in Cleaned :
               listed[k] = currentBranch =>
                   /\ cleanupResults[k].branch = currentBranch
                   /\ ~cleanupResults[k].deleted

\* the checked-out branch is a listed fix branch of infinite age, and the
\* run reported it
C11_Witness ==
    /\ cpc = "done"
    /\ \E k \in Cleaned :
           /\ listed[k] = currentBranch
           /\ cleanupResults[k].age_days = Infinity
           /\ cleanupResults[k].reason = "Currently checked out"

-----------------------------------------------------------------------------
\* C12: a listed branch that is not checked out and whose age equals
\* branch_ttl_days exactly is handed to git.deleteBranch (the test is
\* age >= TTL); when git performs the deletion the branch is gone and the
\* result says deleted: true with that age.
C12_DeletedAtExactTtl ==
    \A k \in Cleaned :
        ( /\ lastCommit[listed[k]].ok
          /\ AgeOf(k) = config.branch_ttl_days
          /\ listed[k] # currentBranch )
        => /\ DeleteIssued(k)
           /\ cleanupResults[k].deleted =>
                  cleanupResults[k].age_days = config.branch_ttl_days

C12_Witness ==
    /\ cpc = "done"
    /\ \E k \in Cleaned :
           /\ lastCommit[listed[k]].ok
           /\ AgeOf(k) = config.branch_ttl_days
           /\ listed[k] # currentBranch
           /\ cleanupResults[k].deleted
           /\ listed[k] \notin branches

-----------------------------------------------------------------------------
\* C13: a branch whose last-commit timestamp cannot be parsed counts as
\* infinitely old: for every branch_ttl_days it is handed to git.deleteBranch
\* unless it is checked out (then it is reported "Currently checked out"),
\* and cleanupExpiredBranches does not reject while processing branches.
C13_UnparseableIsExpired ==
    /\ cpc = "threw" => cleanupResults = <<>> /\ cidx = 1
    /\ cpc = "done" => Len(cleanupResults) = Len(listed)
    /\ \A k \in Cleaned :
           Unparseable(k) =>
               IF listed[k] = currentBranch
               THEN /\ cleanupResults[k].reason = "Currently checked out"
                    /\ cleanupResults[k].age_days = Infinity
               ELSE /\ DeleteIssued(k)
                    /\ cleanupResults[k].deleted =>
                           cleanupResults[k].age_days = Infinity

\* under the largest TTL, a branch with an unparseable timestamp was deleted
C13_Witness ==
    /\ cpc = "done"
    /\ \A t \in TtlChoices : t <= config.branch_ttl_days
    /\ \E k \in Cleaned :
           /\ Unparseable(k)
           /\ cleanupResults[k].deleted
           /\ listed[k] \notin branches


-----------------------------------------------------------------------------
(* Reading the bd command log *)

Searches == { j \in 1..Len(blog) : blog[j].op = "search" /\ blog[j].ok }

CreateCalls(i) == { j \in 1..Len(blog) : blog[j].op = "create" /\ blog[j].pat = i }

CommentCalls(i) == { j \in 1..Len(blog) : blog[j].op = "addComment" /\ blog[j].pat = i }

\* the tracker holds a closed issue with this title and no other issue with it
OnlyClosedMatch(issues, title) ==
    /\ \E k \in 1..Len(issues) : issues[k].title = title /\ issues[k].status = "closed"
    /\ ~HasOpenIssue(issues, title)

IssueWithId(issues, id) == { k \in 1..Len(issues) : issues[k].id = id }

-----------------------------------------------------------------------------
\* C14: for a pattern that passes the gate, when the search output holds a
\* non-closed issue whose title is exactly the pattern's issue title, no
\* create command is issued for the pattern and a trend comment is added to
\* an issue instead.
C14_MatchUpdatesInsteadOfCreating ==
    \A j \in Searches :
        HasOpenIssue(blog[j].seen, blog[j].title) =>
            /\ CreateCalls(blog[j].pat) = {}
            /\ Cardinality(CommentCalls(blog[j].pat)) = 1

-----------------------------------------------------------------------------
-----------------------------------------------------------------------------
(* Reading the event list an adapter returned *)

EventsOfType(type) == { k \in 1..Len(events) : events[k].type = type }

OtherEvents ==
    { k \in 1..Len(events) : events[k].type \notin {"session_start", "session_end"} }

\* instant a is earlier than instant b (both must parse)
Earlier(a, b) == a.parsed # {} /\ b.parsed # {} /\ getTime(a) < getTime(b)

-----------------------------------------------------------------------------
\* C16: the event list an adapter returns for a session holds exactly one
\* session_start event and exactly one session_end event.
C16_ExactlyOneStartAndEnd ==
    (apc = "done" /\ events # <<>>) =>
        /\ Cardinality(EventsOfType("session_start")) = 1
        /\ Cardinality(EventsOfType("session_end")) = 1

-----------------------------------------------------------------------------
\* C17: in a returned event list no event other than session_start and
\* session_end is earlier than a session_start or later than a session_end.
C17_EventsWithinSessionBounds ==
    apc = "done" =>
        \A k \in OtherEvents :
            /\ \A s \in EventsOfType("session_start") :
                   ~Earlier(events[k].timestamp, events[s].timestamp)
            /\ \A e \in EventsOfType("session_end") :
                   ~Earlier(events[e].timestamp, events[k].timestamp)

-----------------------------------------------------------------------------
(* Reading the result of linearizeEntries *)

Linearized == apc \in {"emit", "done"} /\ sessionFile = "ok"

HasRoot == childrenOf(entries, "null") # {}

PositionOf(entry) == CHOOSE k \in 1..Len(entries) : entries[k] = entry

\* entry is the last listed of the entries that share its parent
IsLastListedChild(entry) ==
    PositionOf(entry) = Max(childrenOf(entries, entry.parentId))

\* the output is one lineage: every entry is the last-listed child of the
\* entry before it in the output
IsLastChildLineage ==
    \A k \in 1..Len(linear) :
        /\ IsLastListedChild(linear[k])
        /\ k > 1 => linear[k].parentId = linear[k - 1].id

\* C18 as stated: linearization descends to the last-listed child at every
\* node, so the output is the lineage of later siblings only and holds no
\* entry of an abandoned branch.
C18_OnlyLastChildLineage == Linearized => IsLastChildLineage

\* C18: when some entry has no parent, the output starts at the last-listed
\* such entry, descends to the last-listed child at every node down to an
\* entry without children, and holds no entry of an abandoned branch; when
\* no entry is without parent, the output is the input in its original order.
C18_LastChildLineageFromRoot ==
    Linearized =>
        IF entries # <<>> /\ HasRoot
        THEN /\ IsLastChildLineage
             /\ linear # <<>>
             /\ linear[1].parentId = "null"
             /\ childrenOf(entries, linear[Len(linear)].id) = {}
        ELSE linear = entries

\* a fork whose earlier sibling has a child and whose later sibling has
\* none: the later sibling is in the output, the earlier one and its child
\* are not
C18_Witness ==
    /\ apc = "done"
    /\ HasRoot
    /\ \E a, b \in 1..Len(entries) :
           /\ a < b
           /\ entries[a].parentId = entries[b].parentId
           /\ childrenOf(entries, entries[a].id) # {}
           /\ childrenOf(entries, entries[b].id) = {}
           /\ \E k \in 1..Len(linear) : linear[k] = entries[b]
           /\ \A k \in 1..Len(linear) :
                  /\ linear[k] # entries[a]
                  /\ linear[k].parentId # entries[a].id

-----------------------------------------------------------------------------
\* C19: in the turn-based adapter's output the timestamps are strictly
\* increasing in output order, the events made from the parts of one turn
\* included.
C19_StrictlyIncreasingTimestamps ==
    apc = "done" =>
        \A i, j \in 1..Len(events) :
            i < j => Earlier(events[i].timestamp, events[j].timestamp)

-----------------------------------------------------------------------------
\* C20: getSessionEvents of the flat-hook adapter returns the session's events
\* of all files, and any two of them are in order: by time when both
\* timestamps parse, by lexical comparison of the timestamps otherwise.
C20_SortedAscending ==
    apc = "done" =>
        /\ \E p \in IndexPermutations(Len(allEvents)) :
               events = [k \in 1..Len(allEvents) |-> allEvents[p[k]]]
        /\ \A i, j \in 1..Len(events) :
               i < j =>
                   IF events[i].timestamp.parsed # {} /\ events[j].timestamp.parsed # {}
                   THEN getTime(events[i].timestamp) <= getTime(events[j].timestamp)
                   ELSE ~LexLess(events[j].timestamp.lex, events[i].timestamp.lex)


-----------------------------------------------------------------------------
(* Reading the Ollama client's logs *)

FetchesOf(g) == SelectSeq(fetches, LAMBDA f : f.gen = g)

InFlight == opc \in {"fetching", "reading", "readingError"}

\* no generate call makes more than maxRetries HTTP attempts
AtMostMaxRetriesAttempts == \A g \in 1..3 : Len(FetchesOf(g)) <= maxRetries

\* the k-th retry of a generate call waits BACKOFF_BASE_MS * 2^(k-1)
BackoffDoubles ==
    ocall = "generate" =>
        /\ Len(sleeps) <= maxRetries - 1 \/ sleeps = <<>>
        /\ \A k \in 1..Len(sleeps) : sleeps[k] = 1000 * 2 ^ (k - 1)

\* nothing follows a successful attempt within a generate call
StopsAtFirstSuccess ==
    \A i, j \in 1..Len(fetches) :
        (i < j /\ fetches[i].gen = fetches[j].gen) => fetches[i].outcome # "ok"

\* generate throws only after maxRetries failed attempts
ErrorAfterLastAttempt ==
    (ocall = "generate" /\ opc = "done" /\ oresult.kind = "threw") =>
        /\ Len(fetches) = maxRetries
        /\ \A k \in 1..Len(fetches) : fetches[k].outcome # "ok"
        /\ instanceofOllamaError(oresult.error)

\* an attempt in flight has not outlived the configured timeout
AttemptWithinTimeout == InFlight => elapsed <= TimeoutTicks

-----------------------------------------------------------------------------
\* C21: a generate call makes at most maxRetries HTTP attempts, waits
\* 1s, 2s, 4s, ... before the retries, stops at the first success, throws
\* only after the last failed attempt, and no attempt lasts longer than the
\* configured timeout.
C21_BoundedAttemptsWithinTimeout ==
    /\ AtMostMaxRetriesAttempts
    /\ BackoffDoubles
    /\ StopsAtFirstSuccess
    /\ ErrorAfterLastAttempt
    /\ AttemptWithinTimeout

-----------------------------------------------------------------------------
\* C22: generateJSON starts a second generation exactly when the first
\* response does not parse and never a third one; when the second response
\* does not parse either it throws OllamaParseError carrying the first
\* response.
OkTexts(g) ==
    { FetchesOf(g)[k].text : k \in { n \in 1..Len(FetchesOf(g)) :
                                       FetchesOf(g)[n].outcome = "ok" } }

C22_ExactlyOneRegeneration ==
    ocall = "generateJSON" =>
        /\ gen <= 2
        /\ opc = "done" =>
              /\ gen = 2 <=> \E t \in OkTexts(1) : JSONparse(t) = {}
              /\ \A t1 \in OkTexts(1), t2 \in OkTexts(2) :
                     JSONparse(t2) = {} =>
                         /\ oresult.kind = "threw"
                         /\ oresult.error.name = "OllamaParseError"
                         /\ oresult.error.rawResponse = t1

C22_Witness ==
    /\ ocall = "generateJSON"
    /\ opc = "done"
    /\ \E t2 \in OkTexts(2) : JSONparse(t2) = {} /\ t2 # rawText
    /\ oresult.kind = "threw"


-----------------------------------------------------------------------------
(* Reading the result of analyzeScope *)

NoRecordMeetsFloor == \A k \in 1..Len(records) : records[k] < minSessionSignals

ConformsTo(item, keys) == item.t = "object" /\ item.keys = keys

AllConform(field, keys) ==
    /\ field.t = "array"
    /\ \A k \in 1..Len(field.items) : ConformsTo(field.items[k], keys)

\* the Pattern / DelightPattern schema of a PatternAnalysis
ConformsToSchema(analysis) ==
    /\ analysis.t = "object"
    /\ AllConform(analysis.patterns, PATTERN_KEYS)
    /\ AllConform(analysis.delight_patterns, DELIGHT_KEYS)
    /\ analysis.summary.t = "string"

-----------------------------------------------------------------------------
\* C23: when no record of the scope has at least min_session_signals signals,
\* or the backend answers that it is unavailable, analyzeScope returns a
\* skipped result and has issued no generation request.
C23_SkippedWithoutGeneration ==
    (anpc = "done" /\ (NoRecordMeetsFloor \/ available = "no")) =>
        /\ analysisResult.skipped
        /\ analysisResult.analysis = EMPTY_ANALYSIS
        /\ generations = 0

C23_Witness ==
    /\ anpc = "done"
    /\ ~NoRecordMeetsFloor
    /\ available = "no"
    /\ analysisResult.skipped

-----------------------------------------------------------------------------
\* C24: every result of analyzeScope that is not skipped carries an analysis
\* whose patterns and delight patterns all conform to the schema; a response
\* that does not conform gives a skipped result with a warning.
C24_NonSkippedConformsToSchema ==
    anpc = "done" =>
        \/ /\ analysisResult.skipped
           /\ (generations > 0 => warnings # <<>>)
        \/ /\ ~analysisResult.skipped
           /\ ConformsToSchema(analysisResult.analysis)

-----------------------------------------------------------------------------
(* Reading the window classifyTrend was given *)

ActiveDays == Cardinality({ i \in 1..Len(counts) : counts[i] > 0 })

OnlyMostRecentDay ==
    /\ Len(counts) > 0
    /\ counts[Len(counts)] > 0
    /\ \A i \in 1..(Len(counts) - 1) : counts[i] = 0

NewOverride == ActiveDays < 3 \/ OnlyMostRecentDay

RECURSIVE SumOver(_, _)
SumOver(c, days) ==
    IF days = {} THEN 0
    ELSE LET d == CHOOSE x \in days : TRUE IN c[d] + SumOver(c, days \ {d})

\* S1 and S2: the window's first floor(n/2) days and the rest
S1 == SumOver(counts, 1..(Len(counts) \div 2))

S2 == SumOver(counts, ((Len(counts) \div 2) + 1)..Len(counts))

\* S2/S1 > 1.2 and S2/S1 < 0.8, the quotient by zero being +Infinity
RatioAbove12 == IF S1 = 0 THEN S2 > 0 ELSE 5 * S2 > 6 * S1

RatioBelow08 == S1 > 0 /\ 5 * S2 < 4 * S1

-----------------------------------------------------------------------------
\* C25: with at least three active days, classifyTrend answers increasing
\* when S2/S1 > 1.2, decreasing when S2/S1 < 0.8 and stable otherwise;
\* [1,1,1,5,5,5] is increasing, [5,5,5,1,1,1] decreasing, [3,3,3,3,3,3] stable.
C25_RatioDecidesTrend ==
    trpc = "done" =>
        /\ ~NewOverride =>
               trend = IF RatioAbove12 THEN "increasing"
                       ELSE IF RatioBelow08 THEN "decreasing"
                       ELSE "stable"
        /\ counts = <<1, 1, 1, 5, 5, 5>> => trend = "increasing"
        /\ counts = <<5, 5, 5, 1, 1, 1>> => trend = "decreasing"
        /\ counts = <<3, 3, 3, 3, 3, 3>> => trend = "stable"

\* a window whose second half is exactly 1.2 times the first is stable
C25_Witness ==
    /\ trpc = "done"
    /\ ~NewOverride
    /\ S1 > 0
    /\ 5 * S2 = 6 * S1
    /\ trend = "stable"

-----------------------------------------------------------------------------
\* C26: with fewer than three active days, or with activity on the most
\* recent day only, classifyTrend answers new whatever the two halves sum to.
C26_NewOverridesRatio == (trpc = "done" /\ NewOverride) => trend = "new"

\* two active days whose second half is five times the first
C26_Witness ==
    /\ trpc = "done"
    /\ ActiveDays = 2
    /\ S1 > 0
    /\ S2 >= 5 * S1
    /\ trend = "new"

-----------------------------------------------------------------------------
(* Reading the event list a detector was given *)

Fired(type) == signal.type = type

ToolResultsIn(i, j) == { k \in i..j : hevents[k].type = "tool_result" }

\* the tool results of a stretch of the list, when all of them are failures
FailureRuns ==
    { ToolResultsIn(i, j) : i, j \in 1..Len(hevents) } \cap
    { run \in SUBSET (1..Len(hevents)) : \A k \in run : hevents[k].success = "false" }

LongestFailureRun == Max({ Cardinality(run) : run \in FailureRuns } \cup {0})

Failure == ToolResultEvent("false", AtSecond(0))

Success == ToolResultEvent("true", AtSecond(0))

-----------------------------------------------------------------------------
\* C27: detectToolFailureCascade fires exactly when the longest run of
\* failing tool results, counted over the tool results alone (other events
\* are skipped, a tool result that is not a failure ends the run), is at
\* least tool_failure_cascade_min, and reports that length as its count; two
\* failures, a success and four failures give 4 with a minimum of 3.
C27_CountIsLongestFailureRun ==
    hpc = "done" =>
        /\ Fired("tool_failure_cascade")
               <=> LongestFailureRun >= tconfig.tool_failure_cascade_min
        /\ Fired("tool_failure_cascade") => signal.count = LongestFailureRun
        /\ ~Fired("tool_failure_cascade") => signal = NullSignal

C27_Witness ==
    /\ hpc = "done"
    /\ hevents = <<Failure, Failure, Success, Failure, Failure, Failure, Failure>>
    /\ tconfig.tool_failure_cascade_min = 3
    /\ Fired("tool_failure_cascade")
    /\ signal.count = 4

-----------------------------------------------------------------------------
(* Reading the end of the session *)

SessionEnds == { i \in 1..Len(hevents) : hevents[i].type = "session_end" }

FinalSessionEnd == Max(SessionEnds)

WithinAbandonWindow(i) ==
    /\ hevents[i].timestamp.parsed # {}
    /\ hevents[FinalSessionEnd].timestamp.parsed # {}
    /\ getTime(hevents[FinalSessionEnd].timestamp) - getTime(hevents[i].timestamp)
           <= tconfig.abandon_window_seconds * 1000

FailuresInWindow ==
    { i \in 1..(FinalSessionEnd - 1) : isFailure(hevents[i]) /\ WithinAbandonWindow(i) }

EndedOnUnresolvedFailure ==
    /\ SessionEnds # {}
    /\ FailuresInWindow # {}
    /\ \A j \in (Max(FailuresInWindow) + 1)..(FinalSessionEnd - 1) :
           ~isSuccess(hevents[j])

-----------------------------------------------------------------------------
-----------------------------------------------------------------------------
(* Reading the tool uses of the list *)

\* the tool_use events that carry an input, in list order
UsesWithInput == toolUsesOf(hevents, 1)

\* stretches a..b of them in which every event repeats the one before it
RetryRuns ==
    { <<a, b>> \in (1..Len(UsesWithInput)) \X (1..Len(UsesWithInput)) :
        /\ a <= b
        /\ \A k \in (a + 1)..b :
               isRetry(hevents[UsesWithInput[k - 1]], hevents[UsesWithInput[k]], tconfig) }

LongestRetryRun == Max({ r[2] - r[1] + 1 : r \in RetryRuns } \cup {0})

-----------------------------------------------------------------------------
\* C29: detectRetryLoop looks only at the tool_use events that carry an
\* input; it fires exactly when the longest run of such events, each with
\* the tool name of the one before and an input at least retry_similarity
\* similar to it, is at least retry_loop_min long, and reports that length.
C29_FiresOnLongestRetryRun ==
    hpc = "done" =>
        /\ Fired("retry_loop") <=> LongestRetryRun >= tconfig.retry_loop_min
        /\ Fired("retry_loop") => signal.count = LongestRetryRun

\* from a minimum of 2 on, the detector fires on the longest run
RetryLoopFromTwo == tconfig.retry_loop_min >= 2 => C29_FiresOnLongestRetryRun

-----------------------------------------------------------------------------
(* Reading the gaps of the list *)

GapMs(i) == getTime(hevents[i].timestamp) - getTime(hevents[i - 1].timestamp)

BothParse(i) ==
    hevents[i - 1].timestamp.parsed # {} /\ hevents[i].timestamp.parsed # {}

\* adjacent pairs more than the threshold apart
GapsExceeding ==
    { i \in 2..Len(hevents) :
        BothParse(i) /\ GapMs(i) > tconfig.stall_threshold_seconds * 1000 }

\* adjacent pairs at least the threshold apart
GapsReaching ==
    { i \in 2..Len(hevents) :
        BothParse(i) /\ GapMs(i) >= tconfig.stall_threshold_seconds * 1000 }

-----------------------------------------------------------------------------
\* C30: detectLongStall counts the adjacent pairs of events whose timestamps
\* are strictly more than stall_threshold_seconds apart, and emits the signal
\* exactly when that count is at least 1.
C30_CountsGapsAboveThreshold ==
    hpc = "done" =>
        /\ Fired("long_stall") <=> Cardinality(GapsExceeding) >= 1
        /\ Fired("long_stall") => signal.count = Cardinality(GapsExceeding)

\* what the detector counts: the gaps that reach the threshold
StallCountsGapsReaching ==
    hpc = "done" =>
        /\ Fired("long_stall") <=> Cardinality(GapsReaching) >= 1
        /\ Fired("long_stall") => signal.count = Cardinality(GapsReaching)


-----------------------------------------------------------------------------
(* Reading the per-run cap *)

\* the auto-fix gate, written out: auto_fixable, severity and frequency
PassesGate(i) ==
    /\ patterns[i].auto_fixable
    /\ SEVERITY_RANK[patterns[i].severity] >= SEVERITY_RANK[config.min_severity]
    /\ patterns[i].frequency >= config.min_frequency

GatePassersBefore(i) == { j \in 1..(i - 1) : PassesGate(j) }

\* the loop has gone past pattern i
Visited(i) ==
    /\ config.enabled /\ clean /\ agentAvailable
    /\ (pc = "loop" /\ i < idx) \/ pc = "done"

CreateCalled(i) == \E k \in CallsOf(i) : log[k].op = "createAndCheckoutBranch"

SkippedAs(i, reason) ==
    \E k \in ResultsOf(i) : results[k].action = "skipped" /\ results[k].reason = reason

\* C33: a pattern that passes the auto-fix gate and has fewer than maxPerRun
\* gate-passing patterns before it is never skipped for the run limit, however
\* many gated-out patterns precede it: its fix branch creation is attempted,
\* unless the branch already exists; and a gated-out pattern leaves no call.
C33_GatedOutDoNotConsumeCap ==
    \A i \in 1..Len(patterns) :
        Visited(i) =>
            /\ (PassesGate(i) /\ Cardinality(GatePassersBefore(i)) < maxPerRun) =>
                  /\ ~SkippedAs(i, "Run limit reached")
                  /\ (\/ CreateCalled(i)
                      \/ SkippedAs(i, "Branch already exists (previously attempted)"))
            /\ ~PassesGate(i) =>
                  /\ CallsOf(i) = {}
                  /\ SkippedAs(i, "Below threshold")

C33_Witness ==
    /\ pc = "done"
    /\ maxPerRun = 1
    /\ Len(patterns) = 2
    /\ ~PassesGate(1) /\ SkippedAs(1, "Below threshold")
    /\ PassesGate(2) /\ AgentSucceeded(2)
    /\ fixCount = maxPerRun

\* C34: when the loop reaches a pattern whose derived branch already exists,
\* the step makes no git or agent call and leaves the branches, the checked-out
\* branch and the commits as they were; the pattern gets one 'skipped' result,
\* which for a pattern that passes the gate under the cap names the branch and
\* says it was previously attempted.
C34_ExistingBranchSkipped ==
    [][ (InLoop /\ BranchOf(idx) \in branches) =>
            /\ log' = log
            /\ branches' = branches /\ current' = current /\ ahead' = ahead
            /\ fixCount' = fixCount
            /\ Len(results') = Len(results) + 1
            /\ results'[Len(results')].pattern_id = patterns[idx].id
            /\ results'[Len(results')].action = "skipped"
            /\ (PassesGate(idx) /\ fixCount < maxPerRun) =>
                  /\ results'[Len(results')].branch = BranchOf(idx)
                  /\ results'[Len(results')].reason =
                        "Branch already exists (previously attempted)" ]_vars

C34_Witness ==
    /\ pc = "done"
    /\ \E i \in 1..Len(patterns) :
          /\ PassesGate(i)
          /\ SkippedAs(i, "Branch already exists (previously attempted)")
          /\ CallsOf(i) = {}
          /\ BranchOf(i) \in branches
    /\ log # <<>>

\* C36 (as claimed): whenever a fix branch is created, the branch checked out
\* at that moment is the original branch.
C36_ForksFromOriginal ==
    [][ (/\ Len(log') > Len(log)
         /\ log'[Len(log) + 1].op = "createAndCheckoutBranch"
         /\ log'[Len(log) + 1].ok) => current = originalBranch ]_vars

\* the first fix branch of a run is created on the original branch
FirstForkFromOriginal ==
    [][ (/\ log = <<>> /\ log' # <<>>
         /\ log'[1].op = "createAndCheckoutBranch") => current = originalBranch ]_vars

\* the commit check of pattern i's fix branch could not be run
CommitCheckFailed(i) ==
    \E k \in CallsOf(i) : log[k].op = "hasNewCommits" /\ ~log[k].ok

\* C38: when the agent failed on a pattern and the commit check of its fix
\* branch itself failed, deleteBranch is never called for the pattern, the
\* branch exists from then on, and the pattern's one result is 'skipped',
\* names the branch and reports it retained with partial commits, whether or
\* not the branch really holds commits and whether or not the return to the
\* original branch succeeded.
C38_FailedCommitCheckRetains ==
    \A i \in 1..Len(patterns) :
        (AgentFailed(i) /\ CommitCheckFailed(i)) =>
            /\ \A k \in 1..Len(log) :
                  log[k].op = "deleteBranch" => log[k].branch # BranchOf(i)
            /\ BranchOf(i) \in branches
            /\ ResultsOf(i) # {}
            /\ \A k \in ResultsOf(i) :
                  /\ results[k].action = "skipped"
                  /\ results[k].branch = BranchOf(i)
                  /\ results[k].reason =
                        "Agent failed; branch retained (has partial commits)"

C38_Witness ==
    /\ pc = "done"
    /\ \E i \in 1..Len(patterns) :
          /\ AgentFailed(i) /\ CommitCheckFailed(i)
          /\ ~HadCommits(i)
          /\ CheckedOutOriginal(i)
          /\ BranchOf(i) \in branches


-----------------------------------------------------------------------------
(* Reading what the cleanup deleted *)

IndexListed(branch) == { k \in 1..Len(listed) : listed[k] = branch }

\* the branch was last committed to less than branch_ttl_days days ago
YoungerThanTtl(k) ==
    /\ lastCommit[listed[k]].ok
    /\ ~isNaN(lastCommit[listed[k]].epoch)
    /\ AgeOf(k) < config.branch_ttl_days

\* C39: every deleteBranch call of cleanupExpiredBranches is on a branch that
\* listBranches returned for config.branch_prefix, whose age lookup answered
\* an age of at least branch_ttl_days, and that is not the checked-out branch;
\* a listed branch younger than the TTL, or one whose age lookup failed, has
\* no deleteBranch call, stays in the repository and is reported not deleted.
C39_DeletesOnlyExpiredListed ==
    /\ \A c \in 1..Len(log) :
           log[c].op = "deleteBranch" =>
               /\ IndexListed(log[c].branch) # {}
               /\ log[c].branch[1] = config.branch_prefix
               /\ log[c].branch # currentBranch
               /\ \A k \in IndexListed(log[c].branch) :
                      /\ lastCommit[listed[k]].ok
                      /\ AgeOf(k) >= config.branch_ttl_days
    /\ \A k \in Cleaned :
           (YoungerThanTtl(k) \/ ~lastCommit[listed[k]].ok) =>
               /\ DeleteCallsOn(listed[k]) = {}
               /\ listed[k] \in branches
               /\ ~cleanupResults[k].deleted

\* one run kept a young branch, kept a branch whose age lookup failed, or
\* deleted an expired one while another branch stayed unlisted
C39_Witness ==
    /\ cpc = "done"
    /\ Len(listed) = MaxBranches
    /\ \E j, k \in Cleaned :
           /\ cleanupResults[j].deleted
           /\ YoungerThanTtl(k) \/ ~lastCommit[listed[k]].ok
    /\ OtherBranch \in branches


-----------------------------------------------------------------------------
(* Reading what generateJSON threw *)

ThrewParseError ==
    ocall = "generateJSON" /\ oresult.kind = "threw"
    /\ oresult.error.name = "OllamaParseError"

\* generation g ended with a text response that is not valid JSON
ReturnedInvalidJSON(g) == \E t \in OkTexts(g) : JSONparse(t) = {}

\* generation g made attempts and none of them produced a text response
FailedWithoutText(g) == FetchesOf(g) # <<>> /\ OkTexts(g) = {}

\* C40 (as claimed): generateJSON throws OllamaParseError only when both the
\* first and the regenerated response were text that is not valid JSON; when
\* the regeneration fails without a response, the error thrown is that
\* connection or HTTP error.
C40_ParseErrorOnlyForInvalidJSON ==
    opc = "done" =>
        /\ ThrewParseError => (ReturnedInvalidJSON(1) /\ ReturnedInvalidJSON(2))
        /\ (ocall = "generateJSON" /\ FailedWithoutText(2)) =>
              /\ oresult.kind = "threw"
              /\ oresult.error.name \in {"OllamaError", "OllamaConnectionError"}

\* what generateJSON does: a parse error is thrown exactly when the first
\* response is invalid JSON and the regeneration yields no valid JSON, and it
\* carries the regeneration's own error as its cause
ParseErrorWrapsRegenerationFailure ==
    (opc = "done" /\ ocall = "generateJSON") =>
        /\ ThrewParseError <=>
              (ReturnedInvalidJSON(1) /\ (ReturnedInvalidJSON(2) \/ FailedWithoutText(2)))
        /\ (ThrewParseError /\ FailedWithoutText(2)) =>
              oresult.error.cause.name \in {"OllamaError", "OllamaConnectionError"}


-----------------------------------------------------------------------------
(* Reading the walk of linearizeEntries *)

\* the entry the walk is about to output is already in the output
WalkRevisits ==
    apc = "walk" /\ pcur # 0 /\ \E k \in 1..Len(linear) : linear[k] = entries[pcur]

UniqueIds ==
    \A j, k \in 1..Len(entries) : entries[j].id = entries[k].id => j = k

\* C37 (as claimed): for every list of entries, duplicate ids, self-parents
\* and parent cycles included, the walk of linearizeEntries never comes back
\* to an entry it has already output, so it ends after at most one turn per
\* entry and its output holds no entry twice.
C37_WalkNeverRevisits ==
    /\ ~WalkRevisits
    /\ apc \in {"walk", "emit", "done"} => Len(linear) <= Len(entries)

\* with pairwise distinct ids the walk never revisits an entry, whatever the
\* parent links are
WalkEndsOnUniqueIds ==
    UniqueIds =>
        /\ ~WalkRevisits
        /\ apc \in {"walk", "emit", "done"} => Len(linear) <= Len(entries)

-----------------------------------------------------------------------------
(* Reading what loadConfig returned *)

\* the schema, key by key, as the error messages of lines 17-76 word it
HarnessEntryOk(c, entry) ==
    \/ c[entry] = Missing
    \/ /\ c[entry].t = "object"
       /\ c[entry \o ".enabled"].t = "boolean"
       /\ c[entry \o ".events_dir"].t = "string"

SatisfiesSchema(c) ==
    /\ \A p \in {"", "tagger", "analyzer", "actions", "actions.beads", "actions.digest",
                 "actions.autofix", "harnesses", "scope_rules"} : c[p] = Obj
    /\ c["version"] = Str("1.0.0")
    /\ \A p \in {"tagger.rephrase_threshold", "tagger.tool_failure_cascade_min",
                 "tagger.context_churn_threshold", "tagger.retry_loop_min",
                 "analyzer.min_session_signals", "actions.beads.min_frequency",
                 "actions.autofix.min_frequency"} :
           c[p].t = "number" /\ ~(c[p].v < 0)
    /\ \A p \in {"tagger.abandon_window_seconds", "tagger.stall_threshold_seconds",
                 "analyzer.lookback_days", "actions.autofix.branch_ttl_days"} :
           c[p].t = "number" /\ ~(c[p].v <= 0)
    /\ \A p \in {"tagger.rephrase_similarity", "tagger.retry_similarity"} :
           c[p].t = "number" /\ ~(c[p].v <= 0 \/ c[p].v >= 10)
    /\ \A p \in {"analyzer.model", "analyzer.ollama_url", "actions.beads.title_prefix",
                 "actions.digest.output_dir", "actions.autofix.branch_prefix"} :
           c[p].t = "string"
    /\ \A p \in {"actions.beads.enabled", "actions.digest.enabled",
                 "actions.autofix.enabled"} : c[p].t = "boolean"
    /\ \A p \in {"actions.beads.min_severity", "actions.autofix.min_severity"} :
           c[p] \in {Str("high"), Str("medium"), Str("low")}
    /\ \A p \in {"actions.autofix.allowed_tools", "scope_rules.pai_paths",
                 "scope_rules.ignore_paths"} : c[p] = Arr(TRUE)
    /\ HarnessEntryOk(c, "harnesses.claude_code")
    /\ HarnessEntryOk(c, "harnesses.gemini_cli")

\* C35: loadConfig either throws or returns the parsed file itself, every
\* key as the file has it (no default put in for a missing or invalid
\* one), and what it returns satisfies every constraint of the schema; a
\* file that breaks a constraint, cannot be read or is not JSON makes it
\* throw.
C35_ValidOrThrows ==
    /\ loadResult.kind \in {"pending", "threw", "returned"}
    /\ loadResult.kind = "returned" =>
          /\ rawFile.kind = "json"
          /\ loadResult.value = rawFile.value
          /\ SatisfiesSchema(loadResult.value)
    /\ (loadResult.kind = "threw" /\ rawFile.kind = "json") =>
          ~SatisfiesSchema(rawFile.value)

\* a file without analyzer.lookback_days made loadConfig throw, and naming
\* that key
C35_Witness ==
    /\ rawFile.kind = "json"
    /\ rawFile.value["analyzer.lookback_days"] = Missing
    /\ loadResult.kind = "threw"
    /\ loadResult.error.path = "analyzer.lookback_days"

\* a file whose every key is valid was returned as it is
ValidFileReturned ==
    /\ loadResult.kind = "returned"
    /\ rawFile.value["tagger.rephrase_similarity"] = Num(5)

-----------------------------------------------------------------------------
(* Reading the records of two tagging runs *)

\* C31: two runs of the tagger over the same session log under the same
\* configuration build records with the same signals and the same facets,
\* whatever the clock and the event ids of each run were.
C31_RetaggingSameSignalsAndFacets ==
    Len(tagRuns) = 2 =>
        /\ tagRuns[1].record.signals = tagRuns[2].record.signals
        /\ tagRuns[1].record.facets = tagRuns[2].record.facets

\* the two runs read different clocks and drew different event ids, on a
\* log without stored timestamps, and the session raised a signal
C31_Witness ==
    /\ Len(tagRuns) = 2
    /\ tsession.stored = {}
    /\ tagRuns[1].record.timestamp # tagRuns[2].record.timestamp
    /\ tagRuns[1].events[1].id # tagRuns[2].events[1].id
    /\ tagRuns[1].events[1].timestamp # tagRuns[2].events[1].timestamp
    /\ tagRuns[1].record.signals # <<>>

\* two runs over a log with stored timestamps whose session lasted
StoredSessionTaggedTwice ==
    /\ Len(tagRuns) = 2
    /\ tsession.stored = {3}
    /\ tagRuns[1].record.timestamp # tagRuns[2].record.timestamp
    /\ tagRuns[1].record.facets.session_duration_min[1] > 0
    /\ \E k \in 1..Len(tagRuns[1].record.signals) :
          tagRuns[1].record.signals[k].type = "long_stall"

-----------------------------------------------------------------------------
(* Reading the day file *)

\* the file cut at its newlines: the terminated lines, and what follows the
\* last newline
RECURSIVE splitLines(_, _, _)
splitLines(content, i, acc) ==
    IF i > Len(content) THEN acc
    ELSE IF content[i] = NL
    THEN splitLines(content, i + 1, [lines |-> Append(acc.lines, acc.rest), rest |-> <<>>])
    ELSE splitLines(content, i + 1, [acc EXCEPT !.rest = Append(acc.rest, content[i])])

FileLines == splitLines(fileContent, 1, [lines |-> <<>>, rest |-> <<>>])

\* JSON.parse of one line: one object, braces at both ends and none inside
parsesAsRecord(tokens) ==
    /\ Len(tokens) >= 3
    /\ tokens[1] = "{"
    /\ tokens[Len(tokens)] = "}"
    /\ tokens[2] \in {"s0", "s1", "s2"}
    /\ \A k \in 3..(Len(tokens) - 1) : tokens[k] \in {"long_stall", "retry_loop"}

\* how many lines of the file are the record of writer p
LinesOf(p) ==
    Cardinality({ k \in 1..Len(FileLines.lines) :
                    FileLines.lines[k] \o <<NL>> = writers[p].line })

BothDone == \A p \in Taggers : writers[p].pc = "done"

=============================================================================
